---- MODULE Spec2Model ----
(***************************************************************************)
(* A model of visualquizshorts, its render core and the pipeline around it *)
(*   src/src/video/renderer.py    render_job_to_mp4 and its helpers        *)
(*   src/src/video/compositor.py  QuizCompositor (timing, scene choice)    *)
(*   src/src/video/ffmpeg.py      _run, encode, mux_music, frames_to_mp4   *)
(*   src/src/video/animations.py  easings, lerp_point, countdown, stagger  *)
(*   src/src/media/wiki.py        image fetch, validation and upscale      *)
(*   src/src/puzzle/loader.py     validate_puzzle, select_next_puzzle      *)
(*   src/src/pipeline/runner.py   run_once                                 *)
(*   src/src/pipeline/uploader.py upload_video                             *)
(*   src/scripts/scheduler.py     UploadScheduler                          *)
(*                                                                         *)
(* One call of render_job_to_mp4 is a state machine; pc is the position of *)
(* the call in the source (specification Spec).  The frame time of that    *)
(* call is the exact fraction [n, d] = i / FPS, compared with the integer  *)
(* outro_start as the float comparison of the code compares them.          *)
(*                                                                         *)
(* Every other float of the source is a binary64 value [s, m, e] =         *)
(* (-1)^s * m * 2^e with m odd, and every float operation rounds to        *)
(* nearest, ties to even, as Python's does.  Significands are naturals     *)
(* kept as sequences of limbs.                                             *)
(*                                                                         *)
(* Further specifications over the same variables:                         *)
(*   SpecAnim        the functions of src/src/video/animations.py, called  *)
(*                   on their own                                          *)
(*   SpecCompositor  a constructed QuizCompositor whose _render_frame is   *)
(*                   called at any times, in any order                     *)
(*   SpecFrames      the frame loop: one instance renders its frames in    *)
(*                   turn                                                  *)
(*   SpecPaths       calls of render_job_to_mp4 as far as their output     *)
(*                   paths, against the UTC clock                          *)
(*   SpecWiki        a call of fetch_images_for_items                      *)
(*   SpecRun         calls of run_once over a puzzle file and a used file; *)
(*                   SpecRunFair adds that every started step completes    *)
(*   SpecUpload      a call of upload_video                                *)
(*   SpecSleep       a call of sleep_until_next_run against a clock that   *)
(*                   may oversleep; SpecSleepFair adds that every sleep    *)
(*                   returns                                               *)
(*   SpecSched       run_forever, with run_once inside it                  *)
(*                                                                         *)
(* Strings the code inspects (strip, the filter of safe_id) are sequences  *)
(* of one-character tokens.                                                *)
(***************************************************************************)
EXTENDS Integers, Sequences, FiniteSets, TLC

VARIABLES
    pc,                       \* position of the call in render_job_to_mp4
    job,                      \* the RenderJob object (mutable dataclass)
    job0,                     \* the job as it was handed to the call
    FPS,                      \* settings.FPS (read from the environment)
    ENABLE_BACKGROUND_MUSIC,  \* settings.ENABLE_BACKGROUND_MUSIC
    musicPool,                \* files of assets/music with an audio suffix
    bg,                       \* result of pick_background()
    music,                    \* result of pick_music()
    comp,                     \* the QuizCompositor instance
    tempDir,                  \* whether CACHE_DIR/tmp/<base_name> exists
    frames,                   \* files of frames_dir, in the order written
    i,                        \* loop variable of the frame loop
    held,                     \* the frame objects the call holds in memory
    procs,                    \* external processes started by _run
    tempVideo,                \* state of <out>.nomusic.mp4
    outVideo,                 \* state of the final output path out_mp4
    metadata,                 \* documents written to the sidecar path
    err,                      \* the exception that left the call
    result,                   \* the value returned by the call
    fn,                       \* animations.py: the function last called
    args,                     \* animations.py: its arguments
    ret,                      \* animations.py: the value it returned
    assets,                   \* the images a QuizCompositor instance keeps
    shots,                    \* frames obtained from _render_frame, in call order
    clock,                    \* the UTC clock, in ticks
    calls,                    \* the paths computed by calls of render_job_to_mp4
    wiki,                     \* media/wiki.py: a call of fetch_images_for_items
    run,                      \* pipeline/runner.py: calls of run_once
    upload,                   \* pipeline/uploader.py: a call of upload_video
    sched                     \* scripts/scheduler.py: the UploadScheduler loop

vars == <<pc, job, job0, FPS, ENABLE_BACKGROUND_MUSIC, musicPool, bg, music,
          comp, tempDir, frames, i, held, procs, tempVideo, outVideo,
          metadata, err, result, fn, args, ret, assets, shots, clock, calls,
          wiki, run, upload, sched>>

\* the state of the pipeline around the renderer
pipeline == <<wiki, run, upload, sched>>

\* what a single call of render_job_to_mp4, followed step by step, leaves alone
outsideRender == <<fn, args, ret, assets, shots, clock, calls, pipeline>>

----------------------------------------------------------------------------
(* Program constants *)

DEFAULT_FPS == 30
DEFAULT_DURATION == 20
OUTRO_SECONDS == 3
TIMER_SECONDS == 15
FRAME_NAME_WIDTH == 5
REQUIRED_IMAGES == 4

(* Bounds of the model *)

MaxDuration == 4

FpsChoices == {1, 2, DEFAULT_FPS}
DurationChoices == (0..MaxDuration) \cup {DEFAULT_DURATION}
ImageCounts == {3, 4, 5}
ItemCounts == {3, 4}
Descriptions == {<<>>, <<" ", "\n">>, <<" ", "d">>}
BackgroundPool == {"background.jpg"}
MusicPools == {{}, {"track.mp3"}}
StderrTexts == {<<" ", "a", " ", "b", "\n">>, <<"c">>}

None == "None"

TagChoices == {<<>>, << <<>> >>, << <<"quiz", "shorts">> >>}

MaxTotal == 3

----------------------------------------------------------------------------
(* Strings *)

Whitespace == {" ", "\n", "\t", "\r"}

RECURSIVE LStrip(_)
LStrip(s) ==
    IF s # <<>> /\ Head(s) \in Whitespace THEN LStrip(Tail(s)) ELSE s

RECURSIVE RStrip(_)
RStrip(s) ==
    IF s # <<>> /\ s[Len(s)] \in Whitespace
    THEN RStrip(SubSeq(s, 1, Len(s) - 1))
    ELSE s

\* str.strip()
Strip(s) == RStrip(LStrip(s))

RECURSIVE Digits(_)
\* str(n) for n >= 0, most significant digit first
Digits(n) == IF n < 10 THEN <<n>> ELSE Append(Digits(n \div 10), n % 10)

\* f"{n:05d}": at least FRAME_NAME_WIDTH digits, zero-filled on the left
ZeroPad(n) ==
    LET d == Digits(n)
    IN  IF Len(d) >= FRAME_NAME_WIDTH
        THEN d
        ELSE [k \in 1..(FRAME_NAME_WIDTH - Len(d)) |-> 0] \o d

\* variant of FrameName without the zero fill: f"frame_{i}.png"
FrameName_unpadded(n) == <<"frame_">> \o Digits(n) \o <<".png">>

\* f"frame_{i:05d}.png"
FrameName(n) == <<"frame_">> \o ZeroPad(n) \o <<".png">>

----------------------------------------------------------------------------
(* Exact times *)

Rat(n, d) == [n |-> n, d |-> d]
RatGE(a, b) == a.n * b.d >= b.n * a.d
RatSub(a, b) == Rat(a.n * b.d - b.n * a.d, a.d * b.d)

----------------------------------------------------------------------------
(* Natural numbers of any size: little-endian sequences of limbs below       *)
(* LimbBase with no zero limb at the high end (<<>> is 0).  They carry the   *)
(* 53-bit significands of Python floats, which outgrow the integers of the   *)
(* checker.                                                                  *)

LimbBits == 14
LimbBase == 2 ^ LimbBits

Rest(a) == IF a = <<>> THEN <<>> ELSE Tail(a)
Limb(a) == IF a = <<>> THEN 0 ELSE a[1]

RECURSIVE NTrim(_)
NTrim(a) ==
    IF a # <<>> /\ a[Len(a)] = 0 THEN NTrim(SubSeq(a, 1, Len(a) - 1)) ELSE a

RECURSIVE FromNat(_)
FromNat(n) ==
    IF n = 0 THEN <<>> ELSE <<n % LimbBase>> \o FromNat(n \div LimbBase)

RECURSIVE ToNat(_)
ToNat(a) == IF a = <<>> THEN 0 ELSE a[1] + LimbBase * ToNat(Tail(a))

RECURSIVE NAddC(_, _, _)
NAddC(a, b, c) ==
    IF a = <<>> /\ b = <<>>
    THEN IF c = 0 THEN <<>> ELSE <<c>>
    ELSE LET sum == Limb(a) + Limb(b) + c
         IN  <<sum % LimbBase>> \o NAddC(Rest(a), Rest(b), sum \div LimbBase)

NAdd(a, b) == NAddC(a, b, 0)

RECURSIVE NSubB(_, _, _)
NSubB(a, b, c) ==
    IF a = <<>>
    THEN <<>>
    ELSE LET diff == Limb(a) - Limb(b) - c
         IN  IF diff < 0
             THEN <<diff + LimbBase>> \o NSubB(Rest(a), Rest(b), 1)
             ELSE <<diff>> \o NSubB(Rest(a), Rest(b), 0)

\* a - b for a >= b
NSub(a, b) == NTrim(NSubB(a, b, 0))

RECURSIVE NLessAt(_, _, _)
NLessAt(a, b, k) ==
    IF k = 0 THEN FALSE
    ELSE IF a[k] # b[k] THEN a[k] < b[k]
    ELSE NLessAt(a, b, k - 1)

NLess(a, b) ==
    IF Len(a) # Len(b) THEN Len(a) < Len(b) ELSE NLessAt(a, b, Len(a))

RECURSIVE NMulSmallC(_, _, _)
NMulSmallC(a, k, c) ==
    IF a = <<>>
    THEN IF c = 0 THEN <<>> ELSE <<c>>
    ELSE LET prod == a[1] * k + c
         IN  <<prod % LimbBase>> \o NMulSmallC(Tail(a), k, prod \div LimbBase)

\* a * k + c for k, c below LimbBase
NMulSmall(a, k, c) == NTrim(NMulSmallC(a, k, c))

RECURSIVE NMul(_, _)
NMul(a, b) ==
    IF a = <<>> \/ b = <<>>
    THEN <<>>
    ELSE LET high == NMul(a, Tail(b))
         IN  NAdd(NMulSmall(a, b[1], 0),
                  IF high = <<>> THEN <<>> ELSE <<0>> \o high)

RECURSIVE NDivSmallAt(_, _, _, _)
NDivSmallAt(a, k, n, r) ==
    IF n = 0
    THEN <<>>
    ELSE LET part == r * LimbBase + a[n]
         IN  Append(NDivSmallAt(a, k, n - 1, part % k), part \div k)

\* floor(a / k) for 0 < k <= LimbBase
NDivSmall(a, k) == NTrim(NDivSmallAt(a, k, Len(a), 0))

\* a * 2^n
NShl(a, n) ==
    IF a = <<>>
    THEN <<>>
    ELSE [j \in 1..(n \div LimbBits) |-> 0] \o NMulSmall(a, 2 ^ (n % LimbBits), 0)

\* floor(a / 2^n)
NShr(a, n) ==
    IF Len(a) <= n \div LimbBits
    THEN <<>>
    ELSE NDivSmall(SubSeq(a, n \div LimbBits + 1, Len(a)), 2 ^ (n % LimbBits))

RECURSIVE BitLen(_)
BitLen(w) == IF w = 0 THEN 0 ELSE 1 + BitLen(w \div 2)

\* the number of bits of a
NBits(a) ==
    IF a = <<>> THEN 0 ELSE LimbBits * (Len(a) - 1) + BitLen(a[Len(a)])

NOdd(a) == a # <<>> /\ a[1] % 2 = 1

\* the largest digit below LimbBase with digit * b <= a, found from its
\* highest bit down
RECURSIVE QuotientDigit(_, _, _, _)
QuotientDigit(a, b, p, digit) ==
    IF p < 0
    THEN digit
    ELSE IF NLess(a, NMulSmall(b, digit + 2 ^ p, 0))
         THEN QuotientDigit(a, b, p - 1, digit)
         ELSE QuotientDigit(a, b, p - 1, digit + 2 ^ p)

\* long division, one limb of the dividend a time from the highest limb n
\* down: [q, r] with a = q * b + r
RECURSIVE NDivModAt(_, _, _, _, _)
NDivModStep(a, b, n, q, part, digit) ==
    NDivModAt(a, b, n - 1, <<digit>> \o q, NSub(part, NMulSmall(b, digit, 0)))

NDivModAt(a, b, n, q, r) ==
    IF n = 0
    THEN [q |-> NTrim(q), r |-> r]
    ELSE LET part == NTrim(<<a[n]>> \o r)
         IN  NDivModStep(a, b, n, q, part, QuotientDigit(part, b, LimbBits - 1, 0))

NDivMod(a, b) == NDivModAt(a, b, Len(a), <<>>, <<>>)

----------------------------------------------------------------------------
(* Python floats: IEEE-754 binary64 values (-1)^s * m * 2^e, kept with m odd *)
(* (or 0), each operation rounded to 53 bits, ties to even.  Exponents stay  *)
(* far from the ends of the binary64 range in everything modelled here.      *)

Precision == 53

Zero == [s |-> 0, m |-> <<>>, e |-> 0]

RECURSIVE Canon(_, _, _)
Canon(s, m, e) ==
    IF m = <<>> THEN Zero
    ELSE IF m[1] = 0 THEN Canon(s, Tail(m), e + LimbBits)
    ELSE IF m[1] % 2 = 0 THEN Canon(s, NDivSmall(m, 2), e + 1)
    ELSE [s |-> s, m |-> m, e |-> e]

\* round to nearest, ties to even: kept are the bits that stay, dropped the
\* bits that go, half the weight of the highest of them
RoundNearest(s, e, kept, dropped, half) ==
    Canon(s,
          IF NLess(half, dropped) \/ (dropped = half /\ NOdd(kept))
          THEN NAdd(kept, <<1>>)
          ELSE kept,
          e)

RoundKeeping(s, m, e, drop, kept) ==
    RoundNearest(s, e + drop, kept, NSub(m, NShl(kept, drop)),
                 NShl(<<1>>, drop - 1))

RoundDropping(s, m, e, drop) == RoundKeeping(s, m, e, drop, NShr(m, drop))

\* the binary64 value nearest to (-1)^s * m * 2^e
Round53(s, m, e) ==
    IF NBits(m) <= Precision
    THEN Canon(s, m, e)
    ELSE RoundDropping(s, m, e, NBits(m) - Precision)

\* float(n) of an int n
FromInt(n) == Canon(IF n < 0 THEN 1 ELSE 0, FromNat(IF n < 0 THEN 0 - n ELSE n), 0)

FNeg(x) == IF x = Zero THEN Zero ELSE [x EXCEPT !.s = 1 - x.s]

\* x + y
\* the sum of (-1)^xs * xsig * 2^low and (-1)^ys * ysig * 2^low
AddAligned(xs, xsig, ys, ysig, low) ==
    IF xs # ys /\ xsig = ysig
    THEN Zero
    ELSE Round53(IF xs = ys \/ NLess(ysig, xsig) THEN xs ELSE ys,
                 IF xs = ys THEN NAdd(xsig, ysig)
                 ELSE IF NLess(xsig, ysig) THEN NSub(ysig, xsig)
                 ELSE NSub(xsig, ysig),
                 low)

FAddAt(x, y, low) ==
    AddAligned(x.s, NShl(x.m, x.e - low), y.s, NShl(y.m, y.e - low), low)

FAdd(x, y) ==
    IF x = Zero THEN y
    ELSE IF y = Zero THEN x
    ELSE FAddAt(x, y, IF x.e < y.e THEN x.e ELSE y.e)

\* x - y
FSub(x, y) == FAdd(x, FNeg(y))

\* x * y
FMul(x, y) == Round53((x.s + y.s) % 2, NMul(x.m, y.m), x.e + y.e)

\* x / y for y # 0: enough quotient bits for the rounding, the remainder
\* kept as a sticky bit below them
DivRounded(s, quot, e) ==
    Round53(s, NMulSmall(quot.q, 2, IF quot.r = <<>> THEN 0 ELSE 1), e)

DivShifted(x, y, shift) ==
    DivRounded((x.s + y.s) % 2, NDivMod(NShl(x.m, shift), y.m),
               x.e - y.e - shift - 1)

FDiv(x, y) ==
    IF x = Zero THEN Zero
    ELSE LET want == Precision + 2 + NBits(y.m) - NBits(x.m)
         IN  DivShifted(x, y, IF want < 0 THEN 0 ELSE want)

\* a decimal literal n / d (d a power of ten), correctly rounded as the parser does
Literal(n, d) == FDiv(FromInt(n), FromInt(d))

IsNegative(x) == x # Zero /\ x.s = 1
FLess(x, y) == IsNegative(FSub(x, y))
FLessEq(x, y) == ~FLess(y, x)

\* int(x): truncation toward zero
Signed(s, whole) == IF s = 1 THEN 0 - whole ELSE whole
FTrunc(x) ==
    Signed(x.s, ToNat(IF x.e >= 0 THEN NShl(x.m, x.e) ELSE NShr(x.m, 0 - x.e)))

\* pow(x, n) for n in {2, 3}: the exact power, rounded once
RECURSIVE NPow(_, _)
NPow(m, n) == IF n = 0 THEN <<1>> ELSE NMul(m, NPow(m, n - 1))

pow(x, n) == Round53((x.s * n) % 2, NPow(x.m, n), x.e * n)

One == FromInt(1)

\* settings.py 86-87: the default entry duration 0.5 and stagger delay 0.2
ENTRY_ANIMATION_DURATION == Literal(5, 10)
IMAGE_STAGGER_DELAY == Literal(2, 10)

----------------------------------------------------------------------------
(* animations.py *)

\* max(0.0, min(1.0, t))
Clamp01(t) == IF FLess(Zero, t) THEN (IF FLess(t, One) THEN t ELSE One) ELSE Zero

linear(t) == t

ease_out_cubic(t) == FSub(One, pow(FSub(One, t), 3))

ease_in_out_cubic(t) ==
    IF FLess(t, Literal(5, 10))
    THEN FMul(FMul(FMul(FromInt(4), t), t), t)
    ELSE FSub(One, FDiv(pow(FAdd(FMul(FromInt(-2), t), FromInt(2)), 3),
                        FromInt(2)))

\* c1 = 1.70158
BackC1 == Literal(170158, 100000)

\* c3 = c1 + 1; 1 + c3 * pow(t - 1, 3) + c1 * pow(t - 1, 2)
ease_out_back(t) ==
    FAdd(FAdd(One, FMul(FAdd(BackC1, One), pow(FSub(t, One), 3))),
         FMul(BackC1, pow(FSub(t, One), 2)))

Easings == {"linear", "ease_out_cubic", "ease_in_out_cubic", "ease_out_back"}

\* easing(t) for an easing passed by name
Ease(easing, t) ==
    CASE easing = "linear"            -> linear(t)
      [] easing = "ease_out_cubic"    -> ease_out_cubic(t)
      [] easing = "ease_in_out_cubic" -> ease_in_out_cubic(t)
      [] easing = "ease_out_back"     -> ease_out_back(t)

\* a + (b - a) * t
lerp(a, b, t) == FAdd(a, FMul(FSub(b, a), t))

\* int() of each interpolated coordinate
lerp_point_eased(start, end, t) ==
    <<FTrunc(lerp(start[1], end[1], t)), FTrunc(lerp(start[2], end[2], t))>>

\* lerp_point(start, end, t, easing): t clamped to [0, 1], then eased
lerp_point(start, end, t, easing) ==
    lerp_point_eased(start, end, Ease(easing, Clamp01(t)))

\* fade_in(progress): an alpha 0..255
fade_in(progress) == FTrunc(FMul(FromInt(255), ease_out_cubic(Clamp01(progress))))

\* variant of countdown_value without the clamp at 0
countdown_value_unclamped(total_seconds, elapsed_seconds) ==
    total_seconds - FTrunc(elapsed_seconds)

Max0(remaining) == IF remaining > 0 THEN remaining ELSE 0

\* remaining = total_seconds - int(elapsed_seconds); max(0, remaining)
countdown_value(total_seconds, elapsed_seconds) ==
    Max0(total_seconds - FTrunc(elapsed_seconds))

\* variant of stagger_progress that ignores the index
stagger_progress_together(global_progress, index, stagger_delay, duration) ==
    IF FLessEq(global_progress, Zero) THEN Zero
    ELSE IF FLessEq(duration, global_progress) THEN One
    ELSE FDiv(global_progress, duration)

\* the progress of an entry that starts at start and lasts duration
stagger_from(global_progress, start, duration) ==
    IF FLessEq(global_progress, start) THEN Zero
    ELSE IF FLessEq(FAdd(start, duration), global_progress) THEN One
    ELSE FDiv(FSub(global_progress, start), duration)

\* start = index * stagger_delay; end = start + duration
stagger_progress(global_progress, index, stagger_delay, duration) ==
    stagger_from(global_progress, FMul(FromInt(index), stagger_delay), duration)

\* t = i / FPS
FrameTime(n) == Rat(n, FPS)

----------------------------------------------------------------------------
(* Values *)

NoError == [type |-> None, msg |-> <<>>]

\* variant of RunError that drops the captured stderr
RunError_nostderr(cmd, stderr) ==
    [type |-> "RuntimeError", msg |-> <<"FFmpeg failed:\nCMD: ", cmd>>]

\* _run raises RuntimeError("FFmpeg failed:\nCMD: ...\n\nSTDERR:\n" + stderr.strip())
RunError(cmd, stderr) ==
    [type |-> "RuntimeError",
     msg  |-> <<"FFmpeg failed:\nCMD: ", cmd, "\n\nSTDERR:\n">> \o Strip(stderr)]

ImagesError ==
    [type |-> "ValueError",
     msg  |-> <<"RenderJob.images must contain exactly 4 images">>]

CompositorImagesError ==
    [type |-> "ValueError", msg |-> <<"Exactly 4 images are required">>]

\* KeyboardInterrupt, or an OSError of a disk write: raised from wherever the call is
Interrupted == [type |-> "Interrupted", msg |-> <<>>]

\* build_default_description(job)
build_default_description(j) ==
    <<"Comment your answers (4 words).", "\n", "(Puzzle: ", j.puzzle_id, ")">>

\* variant of WrongImageCount that only asks for at least 4 images
WrongImageCount_atleast(j) == j.nImages < REQUIRED_IMAGES

\* `len(job.images) != 4` (renderer.py 144) and `len(images) != 4`
\* (compositor.py 72): the same test on the same list
WrongImageCount(j) == j.nImages # REQUIRED_IMAGES

\* an image object: where its pixels came from and the alpha put on it
\* (OwnAlpha: whatever the file had)
OwnAlpha == "own"
Img(name) == [src |-> name, alpha |-> OwnAlpha, over |-> <<>>]

\* fetch_images_for_items has not been called
NoWiki ==
    [pc |-> "idle", items |-> <<>>, cache |-> <<>>, k |-> 0, images |-> <<>>,
     err |-> <<>>, result |-> <<>>]

\* run_once has not been called; file is data/puzzles.json, usedFile the
\* lines of output/used_puzzles.txt
NoRun ==
    [pc |-> "idle", file |-> [exists |-> FALSE, data |-> <<>>],
     usedFile |-> <<>>, used |-> {}, attempt |-> 0, puzzle |-> <<>>,
     last_error |-> <<>>, failed |-> {}, err |-> <<>>, result |-> <<>>,
     runs |-> 0]

NoMetrics ==
    [attempts |-> 0, success |-> FALSE, video_id |-> <<>>,
     duration_sec |-> <<>>, error |-> <<>>]

NoUpload ==
    [pc |-> "idle", retries |-> 0, pre |-> "ok", attempt |-> 0, now |-> 0,
     start_ts |-> 0, metrics |-> NoMetrics, outcomes |-> <<>>, slept |-> <<>>,
     err |-> <<>>, result |-> <<>>]

NoSched ==
    [pc |-> "idle", DRY_RUN |-> FALSE, interval |-> 0, now |-> 0,
     last_run |-> <<>>, next_run |-> 0, woke |-> FALSE, iterations |-> 0,
     video |-> <<>>, uploads |-> <<>>, wait |-> 0, slept |-> <<>>,
     err |-> <<>>]

PipelineIdle ==
    wiki = NoWiki /\ run = NoRun /\ upload = NoUpload /\ sched = NoSched

NoAssets == [background |-> Img(None), images |-> <<>>, logo |-> <<>>, icons |-> {}]

NoCompositor ==
    [built             |-> FALSE,
     duration_seconds  |-> 0,
     total_frames      |-> 0,
     hook_start        |-> Zero,
     instruction_start |-> Zero,
     grid_start        |-> Zero,
     timer_start       |-> Zero,
     outro_start       |-> 0]

\* compositor.py 87-89: grid_start + ENTRY_ANIMATION_DURATION + (3 * IMAGE_STAGGER_DELAY)
TimerStart(grid_start) ==
    FAdd(FAdd(grid_start, ENTRY_ANIMATION_DURATION),
         FMul(FromInt(3), IMAGE_STAGGER_DELAY))

\* QuizCompositor.__init__: the frame count and the offsets of the timeline;
\* no statement of it compares duration_seconds with anything
QuizCompositor(duration_seconds) ==
    [built             |-> TRUE,
     duration_seconds  |-> duration_seconds,
     total_frames      |-> duration_seconds * FPS,
     hook_start        |-> Zero,
     instruction_start |-> ENTRY_ANIMATION_DURATION,
     grid_start        |-> FAdd(ENTRY_ANIMATION_DURATION, ENTRY_ANIMATION_DURATION),
     timer_start       |-> TimerStart(FAdd(ENTRY_ANIMATION_DURATION,
                                           ENTRY_ANIMATION_DURATION)),
     outro_start       |-> duration_seconds - OUTRO_SECONDS]

\* QuizCompositor._render_outro(t): a scene of the outro sub-timeline
_render_outro(t) == [kind |-> "outro", t |-> t]

\* the main scene of _render_frame
MainScene(t) == [kind |-> "main", t |-> t]

\* variant of _render_frame with `t > self.outro_start`
_render_frame_strict(t) ==
    IF ~RatGE(Rat(comp.outro_start, 1), t)
    THEN _render_outro(RatSub(t, Rat(comp.outro_start, 1)))
    ELSE MainScene(t)

\* QuizCompositor._render_frame(t)
_render_frame(t) ==
    IF RatGE(t, Rat(comp.outro_start, 1))
    THEN _render_outro(RatSub(t, Rat(comp.outro_start, 1)))
    ELSE MainScene(t)

\* variant of MetaDoc that writes job.tags as it is (null when absent)
MetaDoc_rawtags(j) ==
    [puzzle_id     |-> j.puzzle_id,
     hook          |-> j.hook,
     instruction   |-> j.instruction,
     nItems        |-> j.nItems,
     timer_seconds |-> TIMER_SECONDS,
     fps           |-> FPS,
     title         |-> j.title,
     description   |-> j.description,
     tags          |-> IF j.tags = <<>> THEN <<None>> ELSE j.tags[1]]

\* the record written by save_metadata; items is kept by its length;
\* `job.tags or []`
MetaDoc(j) ==
    [puzzle_id     |-> j.puzzle_id,
     hook          |-> j.hook,
     instruction   |-> j.instruction,
     nItems        |-> j.nItems,
     timer_seconds |-> TIMER_SECONDS,
     fps           |-> FPS,
     title         |-> j.title,
     description   |-> j.description,
     tags          |-> IF j.tags = <<>> THEN <<>> ELSE j.tags[1]]

Process(cmd) == [cmd |-> cmd, state |-> "running", rc |-> 0, stderr |-> <<>>]

Running == procs # <<>> /\ procs[Len(procs)].state = "running"

\* subprocess.run returned: the last process exited with rc and stderr
Exited(rc, stderr) ==
    [procs EXCEPT ![Len(procs)] =
        [@ EXCEPT !.state = "exited", !.rc = rc, !.stderr = stderr]]

Killed ==
    IF Running
    THEN [procs EXCEPT ![Len(procs)] = [@ EXCEPT !.state = "killed"]]
    ELSE procs

----------------------------------------------------------------------------
(* The state at the call of render_job_to_mp4 *)

\* job.tags is an Optional[list[str]]: <<>> stands for None, <<l>> for the
\* list l.  Jobs that have tags are tried with the one-second video: no
\* statement between the validation and save_metadata reads job.tags.
Jobs ==
    {j \in [puzzle_id        : {"p1"},
            nImages          : ImageCounts,
            nItems           : ItemCounts,
            duration_seconds : DurationChoices,
            description      : Descriptions,
            hook             : {"hook"},
            instruction      : {"instruction"},
            title            : {"title"},
            tags             : TagChoices] :
        j.tags = <<>> \/ j.duration_seconds = 1}

Init ==
    /\ pc = "validate"
    /\ job \in Jobs
    /\ job0 = job
    /\ FPS \in FpsChoices
    /\ ENABLE_BACKGROUND_MUSIC \in BOOLEAN
    /\ musicPool \in MusicPools
    /\ bg = None
    /\ music = None
    /\ comp = NoCompositor
    /\ tempDir = FALSE
    /\ frames = <<>>
    /\ i = 0
    /\ held = <<>>
    /\ procs = <<>>
    /\ tempVideo = "absent"
    /\ outVideo = "absent"
    /\ metadata = <<>>
    /\ err = NoError
    /\ result = <<>>
    /\ fn = "none"
    /\ args = <<>>
    /\ ret = <<>>
    /\ assets = NoAssets
    /\ shots = <<>>
    /\ clock = 0
    /\ calls = <<>>
    /\ PipelineIdle

----------------------------------------------------------------------------
(* render_job_to_mp4, statement by statement *)

\* variant of Validate without the check (the compositor's own check is then
\* the first to see the images)
Validate_unchecked ==
    /\ pc = "validate"
    /\ pc' = "describe"
    /\ UNCHANGED <<job, job0, FPS, ENABLE_BACKGROUND_MUSIC, musicPool, bg,
                   music, comp, tempDir, frames, i, held, procs, tempVideo,
                   outVideo, metadata, err, result>>
    /\ UNCHANGED outsideRender

\* renderer.py 144-145: the image-count precondition
Validate ==
    /\ pc = "validate"
    /\ IF WrongImageCount(job)
       THEN pc' = "raised" /\ err' = ImagesError
       ELSE pc' = "describe" /\ err' = err
    /\ UNCHANGED <<job, job0, FPS, ENABLE_BACKGROUND_MUSIC, musicPool, bg,
                   music, comp, tempDir, frames, i, held, procs, tempVideo,
                   outVideo, metadata, result>>
    /\ UNCHANGED outsideRender

\* variant of FillDescription that writes the default over any description
FillDescription_always ==
    /\ pc = "describe"
    /\ job' = [job EXCEPT !.description = build_default_description(job)]
    /\ pc' = "pick"
    /\ UNCHANGED <<job0, FPS, ENABLE_BACKGROUND_MUSIC, musicPool, bg, music,
                   comp, tempDir, frames, i, held, procs, tempVideo, outVideo,
                   metadata, err, result>>
    /\ UNCHANGED outsideRender

\* renderer.py 147-148: a blank description is filled in place
FillDescription ==
    /\ pc = "describe"
    /\ job' = IF Strip(job.description) = <<>>
              THEN [job EXCEPT !.description = build_default_description(job)]
              ELSE job
    /\ pc' = "pick"
    /\ UNCHANGED <<job0, FPS, ENABLE_BACKGROUND_MUSIC, musicPool, bg, music,
                   comp, tempDir, frames, i, held, procs, tempVideo, outVideo,
                   metadata, err, result>>
    /\ UNCHANGED outsideRender

\* renderer.py 150-151: pick_background() and pick_music()
PickAssets ==
    /\ pc = "pick"
    /\ bg' \in (IF BackgroundPool = {} THEN {"fallback-color"} ELSE BackgroundPool)
    /\ music' \in (IF musicPool = {} THEN {None} ELSE musicPool)
    /\ pc' = "compositor"
    /\ UNCHANGED <<job, job0, FPS, ENABLE_BACKGROUND_MUSIC, musicPool, comp,
                   tempDir, frames, i, held, procs, tempVideo, outVideo,
                   metadata, err, result>>
    /\ UNCHANGED outsideRender

\* renderer.py 157-165 and QuizCompositor.__init__
CompositorInit ==
    /\ pc = "compositor"
    /\ IF WrongImageCount(job)
       THEN pc' = "raised" /\ err' = CompositorImagesError /\ comp' = comp
       ELSE /\ comp' = QuizCompositor(job.duration_seconds)
            /\ pc' = "mkdir"
            /\ err' = err
    /\ UNCHANGED <<job, job0, FPS, ENABLE_BACKGROUND_MUSIC, musicPool, bg,
                   music, tempDir, frames, i, held, procs, tempVideo, outVideo,
                   metadata, result>>
    /\ UNCHANGED outsideRender

\* renderer.py 176-186: output paths, frames_dir.mkdir(parents=True, exist_ok=True)
MakeTempDir ==
    /\ pc = "mkdir"
    /\ tempDir' = TRUE
    /\ i' = 0
    /\ pc' = "render"
    /\ UNCHANGED <<job, job0, FPS, ENABLE_BACKGROUND_MUSIC, musicPool, bg,
                   music, comp, frames, held, procs, tempVideo, outVideo,
                   metadata, err, result>>
    /\ UNCHANGED outsideRender

\* variant of RenderFrame that keeps every rendered frame in a list
RenderFrame_accumulating ==
    /\ pc = "render"
    /\ i < comp.total_frames
    /\ held' = Append(held, [t |-> FrameTime(i), scene |-> _render_frame(FrameTime(i))])
    /\ pc' = "save"
    /\ UNCHANGED <<job, job0, FPS, ENABLE_BACKGROUND_MUSIC, musicPool, bg,
                   music, comp, tempDir, frames, i, procs, tempVideo, outVideo,
                   metadata, err, result>>
    /\ UNCHANGED outsideRender

\* renderer.py 199-201: the next index of range(total_frames) is rendered and
\* bound to `frame`, which releases the image of the previous iteration
RenderFrame ==
    /\ pc = "render"
    /\ i < comp.total_frames
    /\ held' = <<[t |-> FrameTime(i), scene |-> _render_frame(FrameTime(i))]>>
    /\ pc' = "save"
    /\ UNCHANGED <<job, job0, FPS, ENABLE_BACKGROUND_MUSIC, musicPool, bg,
                   music, comp, tempDir, frames, i, procs, tempVideo, outVideo,
                   metadata, err, result>>
    /\ UNCHANGED outsideRender

\* renderer.py 204-205: frame.save(frames_dir / f"frame_{i:05d}.png"); the
\* name `frame` stays bound to the written image until the next iteration
\* rebinds it
SaveFrame ==
    /\ pc = "save"
    /\ frames' = Append(frames, [name |-> FrameName(i), image |-> held[Len(held)]])
    /\ i' = i + 1
    /\ pc' = "render"
    /\ UNCHANGED <<job, job0, FPS, ENABLE_BACKGROUND_MUSIC, musicPool, bg,
                   music, comp, tempDir, held, procs, tempVideo, outVideo,
                   metadata, err, result>>
    /\ UNCHANGED outsideRender

\* variant of LoopDone that leaves the loop one frame early
LoopDone_early ==
    /\ pc = "render"
    /\ i >= comp.total_frames - 1
    /\ pc' = "encode"
    /\ UNCHANGED <<job, job0, FPS, ENABLE_BACKGROUND_MUSIC, musicPool, bg,
                   music, comp, tempDir, frames, i, held, procs, tempVideo,
                   outVideo, metadata, err, result>>
    /\ UNCHANGED outsideRender

\* renderer.py 199, 230: range(total_frames) is exhausted
LoopDone ==
    /\ pc = "render"
    /\ i >= comp.total_frames
    /\ pc' = "encode"
    /\ UNCHANGED <<job, job0, FPS, ENABLE_BACKGROUND_MUSIC, musicPool, bg,
                   music, comp, tempDir, frames, i, held, procs, tempVideo,
                   outVideo, metadata, err, result>>
    /\ UNCHANGED outsideRender

----------------------------------------------------------------------------
(* frames_to_mp4 (renderer.py 236-243), with encode_video_from_frames,     *)
(* mux_music and _run inlined.  subprocess.run blocks the caller: a        *)
(* process is started by one step and waited for by the next.              *)

ExitCodes == {0, 1}

\* what a failed or killed ffmpeg leaves at its output path
Leftovers == {"absent", "partial"}

\* variant of MuxWanted that ignores the configuration flag
MuxWanted_ignoring_flag == music # None

\* ffmpeg.py 214: `if ENABLE_BACKGROUND_MUSIC and music_file`
MuxWanted == ENABLE_BACKGROUND_MUSIC /\ music # None

\* ffmpeg.py 204-212, 61-95: the encoder is started on frames_dir
EncodeStart ==
    /\ pc = "encode"
    /\ procs' = Append(procs, Process("encode"))
    /\ pc' = "encoding"
    /\ UNCHANGED <<job, job0, FPS, ENABLE_BACKGROUND_MUSIC, musicPool, bg,
                   music, comp, tempDir, frames, i, held, tempVideo, outVideo,
                   metadata, err, result>>
    /\ UNCHANGED outsideRender

\* ffmpeg.py 25-36, 214: the encoder exited; _run raises on a non-zero status
EncodeExit ==
    /\ pc = "encoding"
    /\ \E rc \in ExitCodes, text \in StderrTexts :
          /\ procs' = Exited(rc, text)
          /\ IF rc # 0
             THEN /\ err' = RunError("encode", text)
                  /\ tempVideo' \in Leftovers
                  /\ pc' = "raised"
                  /\ held' = <<>>
             ELSE /\ err' = err
                  /\ tempVideo' = "complete"
                  /\ pc' = IF MuxWanted THEN "mix" ELSE "move"
                  /\ held' = held
    /\ UNCHANGED <<job, job0, FPS, ENABLE_BACKGROUND_MUSIC, musicPool, bg,
                   music, comp, tempDir, frames, i, outVideo, metadata,
                   result>>
    /\ UNCHANGED outsideRender

\* ffmpeg.py 215, 114-150: mux_music starts the mix command
MixStart ==
    /\ pc = "mix"
    /\ procs' = Append(procs, Process("mix"))
    /\ pc' = "mixing"
    /\ UNCHANGED <<job, job0, FPS, ENABLE_BACKGROUND_MUSIC, musicPool, bg,
                   music, comp, tempDir, frames, i, held, tempVideo, outVideo,
                   metadata, err, result>>
    /\ UNCHANGED outsideRender

\* variant of MixExit without the except clause: the failure is raised
MixExit_nofallback ==
    /\ pc = "mixing"
    /\ \E rc \in {0, 1}, text \in StderrTexts :
          /\ procs' = Exited(rc, text)
          /\ IF rc # 0
             THEN /\ outVideo' \in {"absent", "partial"}
                  /\ err' = RunError("mix", text)
                  /\ pc' = "raised"
                  /\ held' = <<>>
             ELSE /\ outVideo' = "mix"
                  /\ err' = err
                  /\ pc' = "unlink"
                  /\ held' = held
    /\ UNCHANGED <<job, job0, FPS, ENABLE_BACKGROUND_MUSIC, musicPool, bg,
                   music, comp, tempDir, frames, i, tempVideo, metadata,
                   result>>
    /\ UNCHANGED outsideRender

\* ffmpeg.py 149-154: success returns from mux_music; the RuntimeError of a
\* failure is caught and dropped
MixExit ==
    /\ pc = "mixing"
    /\ \E rc \in ExitCodes, text \in StderrTexts :
          /\ procs' = Exited(rc, text)
          /\ IF rc # 0
             THEN /\ outVideo' \in Leftovers
                  /\ pc' = "fallback"
             ELSE /\ outVideo' = "mix"
                  /\ pc' = "unlink"
    /\ UNCHANGED <<job, job0, FPS, ENABLE_BACKGROUND_MUSIC, musicPool, bg,
                   music, comp, tempDir, frames, i, held, tempVideo, metadata,
                   err, result>>
    /\ UNCHANGED outsideRender

\* ffmpeg.py 157-182: the fallback command is started
FallbackStart ==
    /\ pc = "fallback"
    /\ procs' = Append(procs, Process("fallback"))
    /\ pc' = "fallingback"
    /\ UNCHANGED <<job, job0, FPS, ENABLE_BACKGROUND_MUSIC, musicPool, bg,
                   music, comp, tempDir, frames, i, held, tempVideo, outVideo,
                   metadata, err, result>>
    /\ UNCHANGED outsideRender

\* variant of FallbackExit that runs the fallback again after a failure
FallbackExit_retry ==
    /\ pc = "fallingback"
    /\ \E rc \in {0, 1}, text \in StderrTexts :
          /\ procs' = Exited(rc, text)
          /\ IF rc # 0
             THEN /\ outVideo' \in {"absent", "partial"}
                  /\ pc' = IF Len(procs) < 4 THEN "fallback" ELSE "raised"
                  /\ err' = IF Len(procs) < 4 THEN err
                            ELSE RunError("fallback", text)
             ELSE /\ err' = err
                  /\ outVideo' = "fallback"
                  /\ pc' = "unlink"
    /\ UNCHANGED <<job, job0, FPS, ENABLE_BACKGROUND_MUSIC, musicPool, bg,
                   music, comp, tempDir, frames, i, held, tempVideo, metadata,
                   result>>
    /\ UNCHANGED outsideRender

\* variant of FallbackExit that raises the error the mix command had given
FallbackExit_mixerror ==
    /\ pc = "fallingback"
    /\ \E rc \in {0, 1}, text \in StderrTexts :
          /\ procs' = Exited(rc, text)
          /\ IF rc # 0
             THEN /\ err' = RunError("mix", procs[Len(procs) - 1].stderr)
                  /\ outVideo' \in {"absent", "partial"}
                  /\ pc' = "raised"
                  /\ held' = <<>>
             ELSE /\ err' = err
                  /\ outVideo' = "fallback"
                  /\ pc' = "unlink"
                  /\ held' = held
    /\ UNCHANGED <<job, job0, FPS, ENABLE_BACKGROUND_MUSIC, musicPool, bg,
                   music, comp, tempDir, frames, i, tempVideo, metadata,
                   result>>
    /\ UNCHANGED outsideRender

\* ffmpeg.py 182-183: the fallback exited; its failure is not caught
FallbackExit ==
    /\ pc = "fallingback"
    /\ \E rc \in ExitCodes, text \in StderrTexts :
          /\ procs' = Exited(rc, text)
          /\ IF rc # 0
             THEN /\ err' = RunError("fallback", text)
                  /\ outVideo' \in Leftovers
                  /\ pc' = "raised"
                  /\ held' = <<>>
             ELSE /\ err' = err
                  /\ outVideo' = "fallback"
                  /\ pc' = "unlink"
                  /\ held' = held
    /\ UNCHANGED <<job, job0, FPS, ENABLE_BACKGROUND_MUSIC, musicPool, bg,
                   music, comp, tempDir, frames, i, tempVideo, metadata,
                   result>>
    /\ UNCHANGED outsideRender

\* ffmpeg.py 216, 220: temp_video.unlink(missing_ok=True); return out_mp4
Unlink ==
    /\ pc = "unlink"
    /\ tempVideo' = "absent"
    /\ pc' = "metadata"
    /\ UNCHANGED <<job, job0, FPS, ENABLE_BACKGROUND_MUSIC, musicPool, bg,
                   music, comp, tempDir, frames, i, held, procs, outVideo,
                   metadata, err, result>>
    /\ UNCHANGED outsideRender

\* ffmpeg.py 218, 220: shutil.move(temp_video, out_mp4); return out_mp4
Move ==
    /\ pc = "move"
    /\ outVideo' = "nomusic"
    /\ tempVideo' = "absent"
    /\ pc' = "metadata"
    /\ UNCHANGED <<job, job0, FPS, ENABLE_BACKGROUND_MUSIC, musicPool, bg,
                   music, comp, tempDir, frames, i, held, procs, metadata, err,
                   result>>
    /\ UNCHANGED outsideRender

----------------------------------------------------------------------------
(* metadata, cleanup, return *)

\* renderer.py 249, 108-123: save_metadata(out_meta, job)
SaveMetadata ==
    /\ pc = "metadata"
    /\ metadata' = Append(metadata, MetaDoc(job))
    /\ pc' = "cleanup"
    /\ UNCHANGED <<job, job0, FPS, ENABLE_BACKGROUND_MUSIC, musicPool, bg,
                   music, comp, tempDir, frames, i, held, procs, tempVideo,
                   outVideo, err, result>>
    /\ UNCHANGED outsideRender

\* variant of Cleanup that leaves the directory behind
Cleanup_skipped ==
    /\ pc = "cleanup"
    /\ pc' = "return"
    /\ UNCHANGED <<job, job0, FPS, ENABLE_BACKGROUND_MUSIC, musicPool, bg,
                   music, comp, tempDir, frames, i, held, procs, tempVideo,
                   outVideo, metadata, err, result>>
    /\ UNCHANGED outsideRender

\* renderer.py 252: shutil.rmtree(temp_dir, ignore_errors=True)
Cleanup ==
    /\ pc = "cleanup"
    /\ tempDir' = FALSE
    /\ frames' = <<>>
    /\ pc' = "return"
    /\ UNCHANGED <<job, job0, FPS, ENABLE_BACKGROUND_MUSIC, musicPool, bg,
                   music, comp, i, held, procs, tempVideo, outVideo, metadata,
                   err, result>>
    /\ UNCHANGED outsideRender

\* renderer.py 260: return out_video, out_meta
Return ==
    /\ pc = "return"
    /\ result' = <<[video |-> "out_video", meta |-> "out_meta"]>>
    /\ held' = <<>>
    /\ pc' = "returned"
    /\ UNCHANGED <<job, job0, FPS, ENABLE_BACKGROUND_MUSIC, musicPool, bg,
                   music, comp, tempDir, frames, i, procs, tempVideo, outVideo,
                   metadata, err>>
    /\ UNCHANGED outsideRender

\* The call is left by an exception raised from outside its own checks: a
\* KeyboardInterrupt, or an OSError of a file operation.  No statement of
\* render_job_to_mp4 catches it (there is no try/finally), so nothing more
\* of the function runs; a running ffmpeg child is killed and may leave a
\* partial file at its output path.
Interrupt ==
    /\ pc \notin {"returned", "raised"}
    /\ err' = Interrupted
    /\ procs' = Killed
    /\ tempVideo' \in (IF pc = "encoding" THEN Leftovers ELSE {tempVideo})
    /\ outVideo' \in (IF pc \in {"mixing", "fallingback"}
                      THEN Leftovers ELSE {outVideo})
    /\ held' = <<>>
    /\ pc' = "raised"
    /\ UNCHANGED <<job, job0, FPS, ENABLE_BACKGROUND_MUSIC, musicPool, bg,
                   music, comp, tempDir, frames, i, metadata, result>>
    /\ UNCHANGED outsideRender

Next ==
    \/ Validate
    \/ FillDescription
    \/ PickAssets
    \/ CompositorInit
    \/ MakeTempDir
    \/ RenderFrame
    \/ SaveFrame
    \/ LoopDone
    \/ EncodeStart
    \/ EncodeExit
    \/ MixStart
    \/ MixExit
    \/ FallbackStart
    \/ FallbackExit
    \/ Unlink
    \/ Move
    \/ SaveMetadata
    \/ Cleanup
    \/ Return
    \/ Interrupt

Spec == Init /\ [][Next]_vars

----------------------------------------------------------------------------
(* The functions of animations.py, called on their own: one call, of any  *)
(* of them on any of the inputs, per behaviour                              *)

renderVars == <<pc, job, job0, FPS, ENABLE_BACKGROUND_MUSIC, musicPool, bg,
                music, comp, tempDir, frames, i, held, procs, tempVideo,
                outVideo, metadata, err, result>>

\* no call of render_job_to_mp4 is in progress
RenderIdle ==
    /\ pc = "idle"
    /\ job = [puzzle_id |-> "p1", nImages |-> REQUIRED_IMAGES,
              nItems |-> REQUIRED_IMAGES, duration_seconds |-> DEFAULT_DURATION,
              description |-> <<>>, hook |-> "hook",
              instruction |-> "instruction", title |-> "title", tags |-> <<>>]
    /\ job0 = job
    /\ ENABLE_BACKGROUND_MUSIC = FALSE
    /\ musicPool = {}
    /\ bg = None
    /\ music = None
    /\ tempDir = FALSE
    /\ frames = <<>>
    /\ i = 0
    /\ held = <<>>
    /\ procs = <<>>
    /\ tempVideo = "absent"
    /\ outVideo = "absent"
    /\ metadata = <<>>
    /\ err = NoError
    /\ result = <<>>

\* the float just below a float x > 0
FPred(x) ==
    IF x.m = <<1>>
    THEN Canon(0, NSub(NShl(<<1>>, Precision), <<1>>), x.e - Precision)
    ELSE Canon(0, NSub(NShl(x.m, Precision - NBits(x.m)), <<1>>),
               x.e - (Precision - NBits(x.m)))

Totals == (0..MaxTotal) \cup {TIMER_SECONDS}

\* elapsed times: halves around 0..MaxTotal and around TIMER_SECONDS, and
\* the float just below 2
Elapsed ==
    {Literal(k, 2) : k \in (0 - 3)..(2 * MaxTotal + 3)}
    \cup {Literal(k, 2) : k \in (2 * TIMER_SECONDS - 1)..(2 * TIMER_SECONDS + 2)}
    \cup {FPred(FromInt(2))}

\* progress values: tenths of a second and the float just below 1
StaggerTimes == {Literal(k, 10) : k \in 0..12} \cup {FPred(One)}
StaggerIndexes == 0..3
\* <<stagger_delay, duration>>: the defaults, and another pair
StaggerTimings ==
    {<<IMAGE_STAGGER_DELAY, ENTRY_ANIMATION_DURATION>>,
     <<Literal(3, 10), Literal(7, 10)>>}

EasingTimes == {Literal(k, 4) : k \in 0..4}

\* points with integer, fractional and negative coordinates
Points ==
    {<<FromInt(540), FromInt(120)>>,
     <<Literal(75, 100), Literal(0 - 75, 100)>>,
     <<FromInt(0 - 5), Literal(25, 10)>>}
LerpTimes == {Literal(k, 2) : k \in (0 - 1)..3}

InitAnim ==
    /\ RenderIdle
    /\ FPS = DEFAULT_FPS
    /\ comp = NoCompositor
    /\ fn = "none"
    /\ args = <<>>
    /\ ret = <<>>
    /\ assets = NoAssets
    /\ shots = <<>>
    /\ clock = 0
    /\ calls = <<>>
    /\ PipelineIdle

Call_countdown_value ==
    /\ fn = "none"
    /\ \E total \in Totals, elapsed \in Elapsed :
          /\ fn' = "countdown_value"
          /\ args' = <<total, elapsed>>
          /\ ret' = countdown_value(total, elapsed)
    /\ UNCHANGED <<renderVars, assets, shots, clock, calls, pipeline>>

Call_stagger_progress ==
    /\ fn = "none"
    /\ \E gp \in StaggerTimes, index \in StaggerIndexes, timing \in StaggerTimings :
          /\ fn' = "stagger_progress"
          /\ args' = <<gp, index, timing[1], timing[2]>>
          /\ ret' = stagger_progress(gp, index, timing[1], timing[2])
    /\ UNCHANGED <<renderVars, assets, shots, clock, calls, pipeline>>

Call_easing ==
    /\ fn = "none"
    /\ \E easing \in Easings, time \in EasingTimes :
          /\ fn' = "easing"
          /\ args' = <<easing, time>>
          /\ ret' = Ease(easing, time)
    /\ UNCHANGED <<renderVars, assets, shots, clock, calls, pipeline>>

Call_lerp_point ==
    /\ fn = "none"
    /\ \E start \in Points, end \in Points, time \in LerpTimes, easing \in Easings :
          /\ fn' = "lerp_point"
          /\ args' = <<start, end, time, easing>>
          /\ ret' = lerp_point(start, end, time, easing)
    /\ UNCHANGED <<renderVars, assets, shots, clock, calls, pipeline>>

NextAnim ==
    \/ Call_countdown_value
    \/ Call_stagger_progress
    \/ Call_easing
    \/ Call_lerp_point

SpecAnim == InitAnim /\ [][NextAnim]_vars

----------------------------------------------------------------------------
(* A constructed QuizCompositor whose _render_frame is called at any times, *)
(* in any order (compositor.py 115-236)                                     *)

MaxShots == 2

\* job.duration_seconds of the instance
CompositorDurations == {10, DEFAULT_DURATION}

\* which of assets/logo.png and assets/icons/<name>.png exist
IconNames == <<"like", "comment", "subscribe">>
AssetKits ==
    {[logo |-> TRUE, icons |-> {"like", "comment", "subscribe"}],
     [logo |-> FALSE, icons |-> {"comment"}]}

\* QuizCompositor.__init__ 81-102: the images the instance keeps
LoadedAssets(kit) ==
    [background |-> Img("background"),
     images     |-> <<Img("image1"), Img("image2"), Img("image3"), Img("image4")>>,
     logo       |-> IF kit.logo THEN <<Img("logo")>> ELSE <<>>,
     icons      |-> kit.icons]

\* frame indexes: entries of the captions and of the grid, the frames around
\* timer_start (63/30 = 2.1), the countdown, and the frames around
\* outro_start of either duration
ShotFrames == {0, 20, 40, 62, 63, 123, 209, 210, 215, 510}

\* the float i / FPS
Float(t) == FDiv(FromInt(t.n), FromInt(t.d))

\* QuizCompositor._progress(t, start, duration)
_progress(t, start, duration) ==
    IF FLessEq(t, start) THEN Zero
    ELSE IF FLessEq(FAdd(start, duration), t) THEN One
    ELSE FDiv(FSub(t, start), duration)

\* something drawn on the frame: a text with the alpha of its fill, or an
\* image with the alpha put on it (where it is drawn is a function of the
\* same progress, slide_from_angle, and is left out)
Layer(what, alpha, value) == [what |-> what, alpha |-> alpha, value |-> value]

\* _render_frame 122-135: a caption, drawn once its progress is positive
Caption(what, p) ==
    IF FLess(Zero, p) THEN <<Layer(what, fade_in(p), <<>>)>> ELSE <<>>

\* _paste_image: resize() and convert() give a new image; that one gets the
\* alpha and is pasted
_paste_image(img, p) == Layer("image", fade_in(p), img)

\* `if p <= 0: continue`, else the image is pasted
GridLayer(img, p) == IF FLessEq(p, Zero) THEN <<>> ELSE <<_paste_image(img, p)>>

\* max(0.0, gp)
FMax0(gp) == IF IsNegative(gp) THEN Zero ELSE gp

\* _render_frame 126 and 132: the progress of the captions at the float t
HookProgress(t) == _progress(t, comp.hook_start, ENTRY_ANIMATION_DURATION)
InstructionProgress(t) ==
    _progress(t, comp.instruction_start, ENTRY_ANIMATION_DURATION)

\* variant of GridProgress that staggers the images from the start of the video
GridProgress_fromzero(index, t) ==
    stagger_progress(t, index, IMAGE_STAGGER_DELAY, ENTRY_ANIMATION_DURATION)

\* _draw_image_grid 221-222: the progress of image index at the float t
GridProgress(index, t) ==
    stagger_progress(FMax0(FSub(t, comp.grid_start)), index,
                     IMAGE_STAGGER_DELAY, ENTRY_ANIMATION_DURATION)

\* _draw_image_grid, one round of its loop (index counts from 0)
GridImage(images, index, t) ==
    GridLayer(images[index + 1], GridProgress(index, t))

_draw_image_grid(images, t) ==
    GridImage(images, 0, t) \o GridImage(images, 1, t)
        \o GridImage(images, 2, t) \o GridImage(images, 3, t)

\* countdown_text(total_seconds, elapsed_seconds)
countdown_text(total_seconds, elapsed_seconds) ==
    <<countdown_value(total_seconds, elapsed_seconds), "s">>

\* variant of TimerLayer that counts down from the duration of the video
TimerLayer_fromduration(t) ==
    IF FLessEq(comp.timer_start, t)
    THEN <<Layer("timer", 255,
                 countdown_text(comp.duration_seconds, FSub(t, comp.timer_start)))>>
    ELSE <<>>

\* _render_frame 138-140
TimerLayer(t) ==
    IF FLessEq(comp.timer_start, t)
    THEN <<Layer("timer", 255,
                 countdown_text(TIMER_SECONDS, FSub(t, comp.timer_start)))>>
    ELSE <<>>

\* _render_frame 119-142: what the main scene draws at the float t
MainLayers(a, t) ==
    Caption("hook", HookProgress(t))
        \o Caption("instruction", InstructionProgress(t))
        \o _draw_image_grid(a.images, t)
        \o TimerLayer(t)

\* _render_outro 152: min(255, int((t / 0.6) * 255))
Min255(alpha) == IF alpha < 255 THEN alpha ELSE 255
OutroAlpha(t) == Min255(FTrunc(FMul(FDiv(t, Literal(6, 10)), FromInt(255))))

\* _render_outro 185-203, one round of its loop
OutroIcon(a, name, alpha) ==
    IF name \in a.icons
    THEN <<Layer("icon", alpha, Img(name)),
           Layer("label", alpha, name)>>
    ELSE <<>>

\* _render_outro 155-203: what the outro draws with the alpha of its fade
OutroItems(a, alpha) ==
    (IF a.logo # <<>> THEN <<Layer("logo", alpha, a.logo[1])>> ELSE <<>>)
        \o <<Layer("title", alpha, <<>>), Layer("subtext", alpha, <<>>)>>
        \o OutroIcon(a, IconNames[1], alpha)
        \o OutroIcon(a, IconNames[2], alpha)
        \o OutroIcon(a, IconNames[3], alpha)

\* _render_outro 148-205: what the outro draws at the float t of its own
OutroLayers(a, t) == OutroItems(a, OutroAlpha(t))

\* the layers _render_frame(t) draws, with the images a of the instance
Layers(a, t) ==
    LET scene == _render_frame(t)
    IN  IF scene.kind = "outro"
        THEN OutroLayers(a, FSub(Float(t), FromInt(comp.outro_start)))
        ELSE MainLayers(a, Float(t))

\* the frame _render_frame(t) returns: the image it drew on, after the drawing
Frame(base, a, t) ==
    [kind  |-> _render_frame(t).kind,
     image |-> [base EXCEPT !.over = @ \o Layers(a, t)]]

InitCompositor ==
    /\ RenderIdle
    /\ FPS = DEFAULT_FPS
    /\ \E duration_seconds \in CompositorDurations :
          comp = QuizCompositor(duration_seconds)
    /\ \E kit \in AssetKits : assets = LoadedAssets(kit)
    /\ shots = <<>>
    /\ fn = "none"
    /\ args = <<>>
    /\ ret = <<>>
    /\ clock = 0
    /\ calls = <<>>
    /\ PipelineIdle

\* variant of RenderAt that draws on self.background itself
RenderAt_inplace ==
    /\ Len(shots) < MaxShots
    /\ \E k \in ShotFrames :
          LET frame == Frame(assets.background, assets, FrameTime(k))
          IN  /\ shots' = Append(shots, [t |-> FrameTime(k), frame |-> frame])
              /\ assets' = [assets EXCEPT !.background = frame.image]
    /\ UNCHANGED <<renderVars, fn, args, ret, clock, calls, pipeline>>

\* one call of _render_frame(k / FPS): `base = self.background.copy()`, and
\* every image pasted is a resized copy, so the instance keeps what it had
RenderAt ==
    /\ Len(shots) < MaxShots
    /\ \E k \in ShotFrames :
          LET frame == Frame(assets.background, assets, FrameTime(k))
          IN  /\ shots' = Append(shots, [t |-> FrameTime(k), frame |-> frame])
              /\ assets' = assets
    /\ UNCHANGED <<renderVars, fn, args, ret, clock, calls, pipeline>>

NextCompositor == RenderAt

SpecCompositor == InitCompositor /\ [][NextCompositor]_vars

----------------------------------------------------------------------------
(* The frame loop (compositor.py 108-109, renderer.py 199-201): one         *)
(* instance renders the frames i = 0, 1, ... at t = i / FPS in turn; shots  *)
(* keeps the frame just rendered and the one before it                      *)

framesIdle == <<pc, job, job0, FPS, ENABLE_BACKGROUND_MUSIC, musicPool, bg,
               music, comp, tempDir, frames, held, procs, tempVideo, outVideo,
               metadata, err, result, fn, args, ret, assets, clock, calls,
               pipeline>>

InitFrames == InitCompositor

\* the frame before, if any, and the new one
LastTwo(before, shot) ==
    IF before = <<>> THEN <<shot>> ELSE <<before[Len(before)], shot>>

\* one round of the loop: frame = comp._render_frame(i / FPS)
RenderNext ==
    /\ i < comp.total_frames
    /\ shots' = LastTwo(shots, [t |-> FrameTime(i),
                                frame |-> Frame(assets.background, assets,
                                                FrameTime(i))])
    /\ i' = i + 1
    /\ UNCHANGED framesIdle

NextFrames == RenderNext

SpecFrames == InitFrames /\ [][NextFrames]_vars

----------------------------------------------------------------------------
(* Calls of render_job_to_mp4 as far as their output paths (renderer.py   *)
(* 176-186): each call reads the UTC clock once                             *)

MaxClock == 4
MaxCalls == 2

\* the clock advances in half seconds, from 23:59:59 of day 0
TicksPerSecond == 2
StartSecond == 86399

\* puzzle ids, as sequences of characters
PuzzleIds == {<<"a", "b">>, <<"a", "/", "b">>, <<"a", "_", "b">>, <<"c">>}

\* c.isalnum() or c in ("-", "_")
SafeChar(c) == c \in {"a", "b", "c", "-", "_"}

\* "".join(c for c in job.puzzle_id if ...)
SafeId(puzzle_id) == SelectSeq(puzzle_id, SafeChar)

\* a number as two digits
TwoDigits(n) == <<n \div 10, n % 10>>

\* _now_stamp(): strftime("%Y%m%d_%H%M%S") of the clock, whole seconds only;
\* the date is kept as the number of the day
_now_stamp(ticks) ==
    LET second == StartSecond + ticks \div TicksPerSecond
    IN  <<second \div 86400, "_">>
            \o TwoDigits((second % 86400) \div 3600)
            \o TwoDigits((second % 3600) \div 60)
            \o TwoDigits(second % 60)

\* f"{stamp}_{safe_id}"
BaseName(stamp, safe_id) == stamp \o <<"_">> \o safe_id

\* out_video, out_meta and temp_dir of a call
Paths(puzzle_id, ticks) ==
    LET base_name == BaseName(_now_stamp(ticks), SafeId(puzzle_id))
    IN  [puzzle_id |-> puzzle_id,
         out_video |-> <<"output/videos/">> \o base_name \o <<".mp4">>,
         out_meta  |-> <<"output/meta/">> \o base_name \o <<".json">>,
         temp_dir  |-> <<"cache/tmp/">> \o base_name]

InitPaths ==
    /\ RenderIdle
    /\ FPS = DEFAULT_FPS
    /\ comp = NoCompositor
    /\ fn = "none"
    /\ args = <<>>
    /\ ret = <<>>
    /\ assets = NoAssets
    /\ shots = <<>>
    /\ clock = 0
    /\ calls = <<>>
    /\ PipelineIdle

\* time passes
Tick ==
    /\ clock < MaxClock
    /\ clock' = clock + 1
    /\ UNCHANGED <<renderVars, fn, args, ret, assets, shots, calls, pipeline>>

\* a call of render_job_to_mp4 reaches line 186: its paths are fixed and
\* its temporary directory exists (mkdir with exist_ok=True accepts a
\* directory that is already there)
Invoke ==
    /\ Len(calls) < MaxCalls
    /\ \E puzzle_id \in PuzzleIds :
          calls' = Append(calls, Paths(puzzle_id, clock))
    /\ UNCHANGED <<renderVars, fn, args, ret, assets, shots, clock, pipeline>>

NextPaths ==
    \/ Tick
    \/ Invoke

SpecPaths == InitPaths /\ [][NextPaths]_vars

----------------------------------------------------------------------------
(* media/wiki.py: fetch_images_for_items, with fetch_wikipedia_image and   *)
(* _upscale; what the cache holds and what the two requests bring are the   *)
(* inputs                                                                   *)

WIKI_IMAGE_MIN_WIDTH == 600
WIKI_IMAGE_MIN_HEIGHT == 600

\* sizes <<w, h>> of images on the server
ImageSizes ==
    {<<500, 500>>, <<281, 281>>, <<600, 600>>, <<1200, 300>>, <<3, 7>>}

\* what a request brings: <<>> when it fails or names no image, else a size
Responses == {<<>>} \cup ImageSizes

\* the cache file of a query
NoFile == [file |-> "absent", w |-> 0, h |-> 0]
CacheFiles ==
    {NoFile,
     [file |-> "corrupt", w |-> 0, h |-> 0],
     [file |-> "image", w |-> 700, h |-> 650],
     [file |-> "image", w |-> 400, h |-> 900]}

ItemLists == {<<>>, <<"ant">>, <<"ant", "axe">>, <<"ant", "axe", "ant", "arm">>}

\* an image of `query`, with the size it had when it was opened
Opened(query, w, h) == [query |-> query, w |-> w, h |-> h, from |-> <<w, h>>]

_valid_image(img) ==
    img.w >= WIKI_IMAGE_MIN_WIDTH /\ img.h >= WIKI_IMAGE_MIN_HEIGHT

\* max(a, b) of two floats
FMax(a, b) == IF FLess(a, b) THEN b ELSE a

\* img.resize((int(w * scale), int(h * scale)))
Resized(img, scale) ==
    [img EXCEPT !.w = FTrunc(FMul(FromInt(img.w), scale)),
                !.h = FTrunc(FMul(FromInt(img.h), scale))]

_upscale(img) ==
    Resized(img, FMax(FDiv(FromInt(WIKI_IMAGE_MIN_WIDTH), FromInt(img.w)),
                      FDiv(FromInt(WIKI_IMAGE_MIN_HEIGHT), FromInt(img.h))))

\* _save_cache(cache_file, img); return img
Saved(img) ==
    [img |-> <<img>>, file |-> [file |-> "image", w |-> img.w, h |-> img.h]]

\* wiki.py 138-144 and 171-177
Downloaded(img) == Saved(IF _valid_image(img) THEN img ELSE _upscale(img))

\* fetch_wikipedia_image(query): the image returned (<<>> when it raises)
\* and the cache file afterwards
fetch_wikipedia_image(query, cached, original, thumbnail) ==
    IF cached.file = "image" /\ _valid_image(cached)
    THEN [img |-> <<Opened(query, cached.w, cached.h)>>, file |-> cached]
    ELSE IF original # <<>>
    THEN Downloaded(Opened(query, original[1], original[2]))
    ELSE IF thumbnail # <<>>
    THEN Downloaded(Opened(query, thumbnail[1], thumbnail[2]))
    ELSE [img  |-> <<>>,
          file |-> IF cached.file = "corrupt" THEN NoFile ELSE cached]

wikiIdle == <<renderVars, fn, args, ret, assets, shots, clock, calls, run, upload,
             sched>>

InitWiki ==
    /\ RenderIdle
    /\ FPS = DEFAULT_FPS
    /\ comp = NoCompositor
    /\ fn = "none"
    /\ args = <<>>
    /\ ret = <<>>
    /\ assets = NoAssets
    /\ shots = <<>>
    /\ clock = 0
    /\ calls = <<>>
    /\ run = NoRun
    /\ upload = NoUpload
    /\ sched = NoSched
    /\ \E items \in ItemLists, file \in CacheFiles :
          wiki = [NoWiki EXCEPT !.pc = "loop", !.items = items,
                                !.cache = [q \in {"ant", "axe", "arm"} |->
                                              IF q = "ant" THEN file ELSE NoFile]]

\* variant of FetchNext that goes on to the next item when a fetch fails
FetchNext_skipping ==
    /\ wiki.pc = "loop"
    /\ wiki.k < Len(wiki.items)
    /\ \E original \in Responses, thumbnail \in Responses :
          LET item == wiki.items[wiki.k + 1]
              got  == fetch_wikipedia_image(item, wiki.cache[item], original,
                                            thumbnail)
          IN  wiki' = [wiki EXCEPT !.k = @ + 1,
                                   !.images = @ \o got.img,
                                   !.cache[item] = got.file]
    /\ UNCHANGED wikiIdle

\* one round of the loop of fetch_images_for_items, for item k + 1: the
\* image is appended, or the exception of fetch_wikipedia_image is logged
\* and raised again
FetchNext ==
    /\ wiki.pc = "loop"
    /\ wiki.k < Len(wiki.items)
    /\ \E original \in Responses, thumbnail \in Responses :
          LET item == wiki.items[wiki.k + 1]
              got  == fetch_wikipedia_image(item, wiki.cache[item], original,
                                            thumbnail)
          IN  wiki' = [wiki EXCEPT !.k = IF got.img = <<>> THEN @ ELSE @ + 1,
                                   !.images = @ \o got.img,
                                   !.pc = IF got.img = <<>> THEN "raised" ELSE @,
                                   !.err = IF got.img = <<>>
                                           THEN <<"RuntimeError", item>> ELSE @,
                                   !.cache[item] = got.file]
    /\ UNCHANGED wikiIdle

\* the loop is over: return images
ReturnImages ==
    /\ wiki.pc = "loop"
    /\ wiki.k = Len(wiki.items)
    /\ wiki' = [wiki EXCEPT !.pc = "returned", !.result = <<wiki.images>>]
    /\ UNCHANGED wikiIdle

NextWiki ==
    \/ FetchNext
    \/ ReturnImages

SpecWiki == InitWiki /\ [][NextWiki]_vars

----------------------------------------------------------------------------
(* pipeline/runner.py run_once, with puzzle/loader.py select_next_puzzle;  *)
(* whether a fetch or a render succeeds is an input                         *)

MAX_PUZZLE_ATTEMPTS == 10

MaxRuns == 2

\* puzzles of data/puzzles.json: strings the loader inspects are sequences
\* of characters
PuzzleA == [id |-> "p1", letter |-> <<"A">>,
            items |-> << <<"A", "x">>, <<"a">>, <<"a", "B">>, <<"A", "a">> >>]
PuzzleB == [id |-> "p2", letter |-> <<"b">>,
            items |-> << <<"B", "x">>, <<"b">>, <<"b", "a">>, <<"B", "B">> >>]
PuzzleC == [id |-> "p3", letter |-> <<"x">>,
            items |-> << <<"x">>, <<"x", "a">>, <<"x", "b">>, <<"x", "x">> >>]
ThreeItems == [PuzzleB EXCEPT !.items = SubSeq(@, 1, 3)]
WrongLetter == [PuzzleB EXCEPT !.items[3] = <<"a", "b">>]
EmptyItem == [PuzzleC EXCEPT !.items[4] = <<>>]

PuzzleFiles ==
    {[exists |-> FALSE, data |-> <<>>]}
    \cup {[exists |-> TRUE, data |-> d] :
             d \in {<<>>, <<PuzzleA>>, <<PuzzleA, PuzzleB>>,
                    <<PuzzleA, PuzzleB, PuzzleC>>, <<PuzzleA, ThreeItems>>,
                    <<WrongLetter, PuzzleA>>, <<PuzzleA, EmptyItem>>}}

UsedFiles == {<<>>, <<"p1">>, <<"p2", "p1">>}

\* str.lower() on the characters of the model
Lower(c) ==
    CASE c = "A" -> "a"
      [] c = "B" -> "b"
      [] OTHER   -> c

LowerStr(s) == [n \in 1..Len(s) |-> Lower(s[n])]

\* str.startswith(prefix)
StartsWith(s, prefix) ==
    Len(prefix) <= Len(s) /\ SubSeq(s, 1, Len(prefix)) = prefix

\* variant of validate_puzzle that only counts the items
validate_puzzle_countonly(puzzle) == Len(puzzle.items) = REQUIRED_IMAGES

\* validate_puzzle(puzzle): TRUE when it returns, FALSE when it raises
validate_puzzle(puzzle) ==
    /\ Len(puzzle.items) = REQUIRED_IMAGES
    /\ \A n \in 1..Len(puzzle.items) :
          StartsWith(LowerStr(puzzle.items[n]), LowerStr(puzzle.letter))

\* load_valid_puzzles(): the error it raises, <<>> when it returns the list
LoadError(file) ==
    IF ~file.exists THEN <<"FileNotFoundError">>
    ELSE IF \E n \in 1..Len(file.data) : ~validate_puzzle(file.data[n])
    THEN <<"ValueError">>
    ELSE IF file.data = <<>> THEN <<"RuntimeError", "No valid puzzles found">>
    ELSE <<>>

\* the first puzzle of the list whose id is not in used_ids
FirstUnused(puzzles, used_ids) ==
    puzzles[CHOOSE n \in 1..Len(puzzles) :
                /\ puzzles[n].id \notin used_ids
                /\ \A m \in 1..(n - 1) : puzzles[m].id \in used_ids]

\* variant of select_next_puzzle that always returns the first puzzle
select_next_puzzle_first(puzzles, used_ids) == puzzles[1]

\* select_next_puzzle(used_ids) on a list that load_valid_puzzles returned
select_next_puzzle(puzzles, used_ids) ==
    IF used_ids # {} /\ \E n \in 1..Len(puzzles) : puzzles[n].id \notin used_ids
    THEN FirstUnused(puzzles, used_ids)
    ELSE puzzles[1]

\* load_used_ids(): the lines of the file, as a set
load_used_ids(lines) == {lines[n] : n \in 1..Len(lines)}

runIdle == <<renderVars, fn, args, ret, assets, shots, clock, calls, wiki,
            upload, sched>>

InitRun ==
    /\ RenderIdle
    /\ FPS = DEFAULT_FPS
    /\ comp = NoCompositor
    /\ fn = "none"
    /\ args = <<>>
    /\ ret = <<>>
    /\ assets = NoAssets
    /\ shots = <<>>
    /\ clock = 0
    /\ calls = <<>>
    /\ wiki = NoWiki
    /\ upload = NoUpload
    /\ sched = NoSched
    /\ \E file \in PuzzleFiles, lines \in UsedFiles :
          run = [NoRun EXCEPT !.file = file, !.usedFile = lines]

\* runner.py 53-54: used = load_used_ids(); last_error = None
run_once_called ==
    [run EXCEPT !.pc = "select",
                !.used = load_used_ids(run.usedFile),
                !.attempt = 1,
                !.puzzle = <<>>,
                !.last_error = <<>>,
                !.err = <<>>,
                !.result = <<>>,
                !.runs = @ + 1]

\* run_once is called
StartRun ==
    /\ run.pc \in {"idle", "returned", "raised"}
    /\ run.runs < MaxRuns
    /\ run' = run_once_called
    /\ UNCHANGED runIdle

\* runner.py 58-59: the next round of the loop selects a puzzle; an error of
\* the loader leaves run_once (the call is outside the try)
Select ==
    /\ run.pc = "select"
    /\ run.attempt <= MAX_PUZZLE_ATTEMPTS
    /\ run' = IF LoadError(run.file) # <<>>
              THEN [run EXCEPT !.pc = "raised", !.err = LoadError(run.file)]
              ELSE [run EXCEPT !.pc = "fetch",
                               !.puzzle = <<select_next_puzzle(run.file.data,
                                                               run.used)>>]
    /\ UNCHANGED runIdle

\* variant of AttemptFailed that does not count the attempt
AttemptFailed_uncounted(error) ==
    [run EXCEPT !.pc = "select",
                !.last_error = <<error, run.puzzle[1].id, run.attempt>>,
                !.used = @ \cup {run.puzzle[1].id},
                !.failed = @ \cup {run.puzzle[1].id}]

\* variant of AttemptFailed that does not write the used file
AttemptFailed_unmarked(error) ==
    [run EXCEPT !.pc = "select",
                !.last_error = <<error, run.puzzle[1].id, run.attempt>>,
                !.used = @ \cup {run.puzzle[1].id},
                !.failed = @ \cup {run.puzzle[1].id},
                !.attempt = @ + 1]

\* runner.py 98-108: the except branch; failed is the set of the puzzles
\* that have failed so far
AttemptFailed(error) ==
    [run EXCEPT !.pc = "select",
                !.last_error = <<error, run.puzzle[1].id, run.attempt>>,
                !.usedFile = Append(@, run.puzzle[1].id),
                !.used = @ \cup {run.puzzle[1].id},
                !.failed = @ \cup {run.puzzle[1].id},
                !.attempt = @ + 1]

\* images = fetch_images_for_items(items)
FetchImages ==
    /\ run.pc = "fetch"
    /\ \E ok \in BOOLEAN :
          run' = IF ok THEN [run EXCEPT !.pc = "render"] ELSE AttemptFailed("fetch")
    /\ UNCHANGED runIdle

\* render_job_to_mp4(job); then mark_used(puzzle_id) and the return
RenderVideo ==
    /\ run.pc = "render"
    /\ \E ok \in BOOLEAN :
          run' = IF ok
                 THEN [run EXCEPT !.pc = "returned",
                                  !.usedFile = Append(@, run.puzzle[1].id),
                                  !.result = <<[video |-> run.puzzle[1].id,
                                                meta |-> run.puzzle[1].id,
                                                attempt |-> run.attempt]>>]
                 ELSE AttemptFailed("render")
    /\ UNCHANGED runIdle

\* runner.py 113-115: the loop is over
Exhausted ==
    /\ run.pc = "select"
    /\ run.attempt > MAX_PUZZLE_ATTEMPTS
    /\ run' = [run EXCEPT !.pc = "raised",
                          !.err = <<"RuntimeError", run.last_error>>]
    /\ UNCHANGED runIdle

\* runner.py 71-98: a KeyboardInterrupt during the fetch or the render is
\* not an Exception; the except clause does not catch it and it leaves
\* run_once
InterruptRun ==
    /\ run.pc \in {"fetch", "render"}
    /\ run' = [run EXCEPT !.pc = "raised", !.err = <<"KeyboardInterrupt">>]
    /\ UNCHANGED runIdle

NextRun ==
    \/ StartRun
    \/ Select
    \/ FetchImages
    \/ RenderVideo
    \/ Exhausted
    \/ InterruptRun

SpecRun == InitRun /\ [][NextRun]_vars

\* every call of a function goes on to its next statement
SpecRunFair == SpecRun /\ WF_vars(NextRun)

----------------------------------------------------------------------------
(* pipeline/uploader.py upload_video: what the preparation and each upload  *)
(* attempt do, and how long they take, are inputs; utc_timestamp reads the  *)
(* field now                                                                *)

MaxRetries == 3

MaxElapsed == 1

\* seconds of waiting per attempt number: sleep_time = 5 * attempt
RETRY_WAIT == 5

\* what happens before the loop: all goes well, the video file is missing,
\* load_metadata raises, get_youtube_client raises
Preparations == {"ok", "FileNotFoundError", "MetadataError", "RuntimeError"}

\* what one attempt does: the upload completes with a response that has an
\* id, videos().insert or next_chunk raises HttpError, raises another
\* exception, or the response has no id (KeyError)
AttemptOutcomes == {"ok", "HttpError", "Exception", "KeyError"}

uploadIdle == <<renderVars, fn, args, ret, assets, shots, clock, calls, wiki,
               run, sched>>

InitUpload ==
    /\ RenderIdle
    /\ FPS = DEFAULT_FPS
    /\ comp = NoCompositor
    /\ fn = "none"
    /\ args = <<>>
    /\ ret = <<>>
    /\ assets = NoAssets
    /\ shots = <<>>
    /\ clock = 0
    /\ calls = <<>>
    /\ wiki = NoWiki
    /\ run = NoRun
    /\ sched = NoSched
    /\ \E retries \in 0..MaxRetries, pre \in Preparations, now \in 0..MaxElapsed :
          upload = [NoUpload EXCEPT !.retries = retries, !.pre = pre,
                                    !.now = now]

\* uploader.py 105-140: the metrics are initialised and the upload prepared
Prepare ==
    /\ upload.pc = "idle"
    /\ upload' = IF upload.pre = "ok"
                 THEN [upload EXCEPT !.pc = "loop", !.start_ts = upload.now,
                                     !.attempt = 1]
                 ELSE [upload EXCEPT !.pc = "raised", !.start_ts = upload.now,
                                     !.err = <<upload.pre>>]
    /\ UNCHANGED uploadIdle

\* uploader.py 142-144: a round of the loop starts
NextAttempt ==
    /\ upload.pc = "loop"
    /\ upload.attempt <= upload.retries
    /\ upload' = [upload EXCEPT !.pc = "try",
                                !.metrics.attempts = upload.attempt]
    /\ UNCHANGED uploadIdle

\* variant of Attempt in which a completed upload clears the error
Attempt_clearing ==
    /\ upload.pc = "try"
    /\ \E outcome \in {"ok", "HttpError", "Exception", "KeyError"},
          elapsed \in {0, 1} :
          upload' =
              IF outcome = "ok"
              THEN [upload EXCEPT
                       !.pc = "returned",
                       !.now = @ + elapsed,
                       !.outcomes = Append(@, outcome),
                       !.metrics = [@ EXCEPT !.success = TRUE,
                                             !.video_id = <<"id">>,
                                             !.duration_sec = <<elapsed>>,
                                             !.error = <<>>],
                       !.result = <<[upload.metrics EXCEPT
                                        !.success = TRUE,
                                        !.video_id = <<"id">>,
                                        !.duration_sec = <<elapsed>>,
                                        !.error = <<>>]>>]
              ELSE [upload EXCEPT !.pc = "failed",
                                  !.now = @ + elapsed,
                                  !.outcomes = Append(@, outcome),
                                  !.metrics.error = <<outcome>>]
    /\ UNCHANGED uploadIdle

\* uploader.py 146-185: the try block and its except clauses; the attempt
\* takes elapsed seconds
Attempt ==
    /\ upload.pc = "try"
    /\ \E outcome \in AttemptOutcomes, elapsed \in 0..MaxElapsed :
          upload' =
              IF outcome = "ok"
              THEN [upload EXCEPT
                       !.pc = "returned",
                       !.now = @ + elapsed,
                       !.outcomes = Append(@, outcome),
                       !.metrics.success = TRUE,
                       !.metrics.video_id = <<"id">>,
                       !.metrics.duration_sec =
                           <<upload.now + elapsed - upload.start_ts>>,
                       !.result =
                           <<[upload.metrics EXCEPT
                                 !.success = TRUE,
                                 !.video_id = <<"id">>,
                                 !.duration_sec =
                                     <<upload.now + elapsed - upload.start_ts>>]>>]
              ELSE [upload EXCEPT !.pc = "failed",
                                  !.now = @ + elapsed,
                                  !.outcomes = Append(@, outcome),
                                  !.metrics.error = <<outcome>>]
    /\ UNCHANGED uploadIdle

\* variant of RetryWait that sleeps after every failed attempt
RetryWait_always ==
    /\ upload.pc = "failed"
    /\ upload' = [upload EXCEPT
                     !.pc = "loop",
                     !.attempt = @ + 1,
                     !.slept = Append(@, RETRY_WAIT * upload.attempt),
                     !.now = @ + RETRY_WAIT * upload.attempt]
    /\ UNCHANGED uploadIdle

\* uploader.py 187-190: time.sleep(5 * attempt) when an attempt is left
RetryWait ==
    /\ upload.pc = "failed"
    /\ upload' = IF upload.attempt < upload.retries
                 THEN [upload EXCEPT
                          !.pc = "loop",
                          !.attempt = @ + 1,
                          !.slept = Append(@, RETRY_WAIT * upload.attempt),
                          !.now = @ + RETRY_WAIT * upload.attempt]
                 ELSE [upload EXCEPT !.pc = "loop", !.attempt = @ + 1]
    /\ UNCHANGED uploadIdle

\* uploader.py 192-194: the loop is over without a success
GiveUp ==
    /\ upload.pc = "loop"
    /\ upload.attempt > upload.retries
    /\ upload' = [upload EXCEPT
                     !.pc = "returned",
                     !.metrics.duration_sec = <<upload.now - upload.start_ts>>,
                     !.result = <<[upload.metrics EXCEPT !.duration_sec =
                                      <<upload.now - upload.start_ts>>]>>]
    /\ UNCHANGED uploadIdle

NextUpload ==
    \/ Prepare
    \/ NextAttempt
    \/ Attempt
    \/ RetryWait
    \/ GiveUp

SpecUpload == InitUpload /\ [][NextUpload]_vars

----------------------------------------------------------------------------
(* scripts/scheduler.py UploadScheduler: should_run, sleep_until_next_run   *)
(* and run_forever, which calls run_once of pipeline/runner.py.  Times are  *)
(* in ticks of the clock utc_now reads; the last-run file holds a time or   *)
(* nothing; what upload_video gives back is an input.                       *)

RENDER_RETRY_SECONDS == 5 * 60
UPLOAD_RETRY_SECONDS == 30 * 60

MaxIterations == 2

\* ticks by which a time.sleep of the countdown can last longer than asked
MaxOvershoot == 1

\* settings.UPLOAD_INTERVAL_HOURS (read from the environment)
IntervalChoices == {1, 2}

Seconds(n) == n * TicksPerSecond

\* int(x) of a time difference in ticks, in seconds: truncation towards zero
WholeSeconds(ticks) ==
    IF ticks >= 0 THEN ticks \div TicksPerSecond
    ELSE 0 - ((0 - ticks) \div TicksPerSecond)

\* what a call of upload_video gives the scheduler: metrics with success
\* true or false, or an exception
UploadResults ==
    {"success", "failed", "RuntimeError", "FileNotFoundError",
     "KeyboardInterrupt"}

\* UploadScheduler.should_run()
should_run(s) ==
    IF s.last_run = <<>> THEN TRUE
    ELSE s.now - s.last_run[1] >= s.interval

\* sleep_until_next_run 53: int((next_run - utc_now()).total_seconds())
Remaining(s) == WholeSeconds(s.next_run - s.now)

\* sleep_until_next_run 60-68
SleepFor(remaining) ==
    IF remaining > 3600 THEN 3600
    ELSE IF remaining > 600 THEN 600
    ELSE 60

Min(a, b) == IF a < b THEN a ELSE b

schedIdle == <<renderVars, fn, args, ret, assets, shots, clock, calls, wiki,
              run, upload>>

\* sleep_until_next_run 43-50
SleepEntry ==
    /\ sched.pc = "sleep_until_next_run"
    /\ \E over \in 0..MaxOvershoot :
          sched' = IF sched.last_run = <<>>
                   THEN [sched EXCEPT !.pc = "loop",
                                      !.woke = TRUE,
                                      !.slept = <<[seconds |-> 60,
                                                   remaining |-> 0]>>,
                                      !.now = @ + Seconds(60) + over]
                   ELSE [sched EXCEPT !.pc = "countdown",
                                      !.next_run = sched.last_run[1]
                                                       + sched.interval]
    /\ UNCHANGED schedIdle

\* the round of the countdown, given int() of the remaining time
CountdownRound(remaining, over) ==
    IF remaining <= 0
    THEN [sched EXCEPT !.pc = "loop", !.woke = TRUE]
    ELSE [sched EXCEPT
             !.slept = <<[seconds |-> Min(SleepFor(remaining), remaining),
                          remaining |-> remaining]>>,
             !.now = @ + Seconds(Min(SleepFor(remaining), remaining)) + over]

\* sleep_until_next_run 52-70: one round of `while True`
Countdown ==
    /\ sched.pc = "countdown"
    /\ \E over \in 0..MaxOvershoot :
          sched' = CountdownRound(Remaining(sched), over)
    /\ UNCHANGED schedIdle

\* a call of sleep_until_next_run, with and without a stored timestamp
InitSleep ==
    /\ RenderIdle
    /\ FPS = DEFAULT_FPS
    /\ comp = NoCompositor
    /\ fn = "none"
    /\ args = <<>>
    /\ ret = <<>>
    /\ assets = NoAssets
    /\ shots = <<>>
    /\ clock = 0
    /\ calls = <<>>
    /\ wiki = NoWiki
    /\ run = NoRun
    /\ upload = NoUpload
    /\ \E hours \in IntervalChoices, last_run \in {<<>>, <<0>>},
          now \in 0..Seconds(2) :
          sched = [NoSched EXCEPT !.pc = "sleep_until_next_run",
                                  !.interval = Seconds(3600 * hours),
                                  !.last_run = last_run,
                                  !.now = now]

NextSleep ==
    \/ SleepEntry
    \/ Countdown

SpecSleep == InitSleep /\ [][NextSleep]_vars

\* the clock advances: every sleep that was started ends
SpecSleepFair == SpecSleep /\ WF_vars(NextSleep)

----------------------------------------------------------------------------
(* UploadScheduler.run_forever (scheduler.py 76-124).  Between the call of  *)
(* run_once and its end the steps are those of run_once.                    *)

\* the except clauses of run_forever (112-124) on an exception of this type
Caught(type) ==
    IF type = "KeyboardInterrupt"
    THEN [sched EXCEPT !.pc = "stopped", !.err = <<type>>]
    ELSE IF type = "RuntimeError"
    THEN [sched EXCEPT !.pc = "retry", !.err = <<type>>,
                       !.wait = RENDER_RETRY_SECONDS]
    ELSE [sched EXCEPT !.pc = "retry", !.err = <<type>>,
                       !.wait = UPLOAD_RETRY_SECONDS]

\* the puzzle files of the scheduler's runs: absent, valid, invalid
SchedFiles ==
    {[exists |-> FALSE, data |-> <<>>],
     [exists |-> TRUE, data |-> <<PuzzleA, PuzzleB>>],
     [exists |-> TRUE, data |-> <<WrongLetter, PuzzleA>>]}

InitSched ==
    /\ RenderIdle
    /\ FPS = DEFAULT_FPS
    /\ comp = NoCompositor
    /\ fn = "none"
    /\ args = <<>>
    /\ ret = <<>>
    /\ assets = NoAssets
    /\ shots = <<>>
    /\ clock = 0
    /\ calls = <<>>
    /\ wiki = NoWiki
    /\ upload = NoUpload
    /\ \E file \in SchedFiles, lines \in {<<>>, <<"p1">>} :
          run = [NoRun EXCEPT !.file = file, !.usedFile = lines]
    /\ \E dry \in BOOLEAN, last_run \in {<<>>, <<0>>}, early \in 0..1 :
          sched = [NoSched EXCEPT !.pc = "loop",
                                  !.DRY_RUN = dry,
                                  !.interval = Seconds(3600),
                                  !.last_run = last_run,
                                  !.now = Seconds(3600 - early)]

\* scheduler.py 81-85: `if not self.should_run()`
CheckShouldRun ==
    /\ sched.pc = "loop"
    /\ sched.iterations < MaxIterations
    /\ sched' = [sched EXCEPT
                    !.pc = IF should_run(sched) THEN "render"
                           ELSE "sleep_until_next_run",
                    !.iterations = @ + 1,
                    !.woke = FALSE,
                    !.video = <<>>,
                    !.err = <<>>]
    /\ UNCHANGED schedIdle

\* scheduler.py 91: render_once() is called
CallRender ==
    /\ sched.pc = "render"
    /\ sched' = [sched EXCEPT !.pc = "rendering"]
    /\ run' = run_once_called
    /\ UNCHANGED <<renderVars, fn, args, ret, assets, shots, clock, calls,
                   wiki, upload>>

\* the steps of run_once while the scheduler waits for it
RenderStep ==
    /\ sched.pc = "rendering"
    /\ \/ Select
       \/ FetchImages
       \/ RenderVideo
       \/ Exhausted
       \/ InterruptRun

\* scheduler.py 91-99: render_once() returned the paths
RenderReturned ==
    /\ sched.pc = "rendering"
    /\ run.pc = "returned"
    /\ sched' = [sched EXCEPT
                    !.pc = IF sched.DRY_RUN THEN "stamp" ELSE "upload",
                    !.video = <<[puzzle |-> run.result[1].video,
                                 call |-> run.runs]>>]
    /\ UNCHANGED schedIdle

\* scheduler.py 91, 112-124: render_once() raised
RenderRaised ==
    /\ sched.pc = "rendering"
    /\ run.pc = "raised"
    /\ sched' = Caught(run.err[1])
    /\ UNCHANGED schedIdle

\* variant of Upload that goes on to the timestamp whatever the metrics say
Upload_unchecked ==
    /\ sched.pc = "upload"
    /\ \E outcome \in {"success", "failed"} :
          sched' = [sched EXCEPT
                       !.pc = "stamp",
                       !.uploads = Append(@, [video |-> sched.video[1],
                                              outcome |-> outcome])]
    /\ UNCHANGED schedIdle

\* variant of Upload that calls upload_video again after failed metrics
Upload_again ==
    /\ sched.pc = "upload"
    /\ \E outcome \in {"success", "failed"} :
          sched' = [sched EXCEPT
                       !.pc = IF outcome = "success" \/ Len(sched.uploads) > 0
                              THEN "stamp" ELSE "upload",
                       !.uploads = Append(@, [video |-> sched.video[1],
                                              outcome |-> outcome])]
    /\ UNCHANGED schedIdle

\* scheduler.py 100-104: upload_video(video_path, meta_path); metrics
\* without success are raised as RuntimeError
Upload ==
    /\ sched.pc = "upload"
    /\ \E outcome \in UploadResults :
          sched' =
              IF outcome = "success"
              THEN [sched EXCEPT
                       !.pc = "stamp",
                       !.uploads = Append(@, [video |-> sched.video[1],
                                              outcome |-> outcome])]
              ELSE [Caught(IF outcome = "failed" THEN "RuntimeError"
                           ELSE outcome)
                       EXCEPT !.uploads = Append(@, [video |-> sched.video[1],
                                                     outcome |-> outcome])]
    /\ UNCHANGED schedIdle

\* scheduler.py 109: write_timestamp(LAST_RUN_FILE, utc_now())
WriteTimestamp ==
    /\ sched.pc = "stamp"
    /\ sched' = [sched EXCEPT !.pc = "loop", !.last_run = <<sched.now>>]
    /\ UNCHANGED schedIdle

\* scheduler.py 119, 124: time.sleep of the except clause
RetrySleep ==
    /\ sched.pc = "retry"
    /\ sched' = [sched EXCEPT !.pc = "loop", !.now = @ + Seconds(sched.wait)]
    /\ UNCHANGED schedIdle

\* scheduler.py 112-114: a KeyboardInterrupt in a statement of the loop
\* itself (one raised inside run_once arrives through RenderRaised)
Stop ==
    /\ sched.pc \in {"loop", "sleep_until_next_run", "countdown", "upload",
                     "stamp", "retry"}
    /\ sched' = Caught("KeyboardInterrupt")
    /\ UNCHANGED schedIdle

NextSched ==
    \/ CheckShouldRun
    \/ SleepEntry
    \/ Countdown
    \/ CallRender
    \/ RenderStep
    \/ RenderReturned
    \/ RenderRaised
    \/ Upload
    \/ WriteTimestamp
    \/ RetrySleep
    \/ Stop

SpecSched == InitSched /\ [][NextSched]_vars

----------------------------------------------------------------------------
(* Vocabulary of the properties *)

\* positions between the end of the frame loop and the removal of the directory
AfterLoop ==
    {"encode", "encoding", "mix", "mixing", "fallback", "fallingback",
     "unlink", "move", "metadata", "cleanup"}

\* positions after frames_to_mp4 returned
AfterEncode == {"metadata", "cleanup", "return", "returned"}

RECURSIVE DigitsValue(_)
\* the number a digit string denotes (what ffmpeg's frame_%05d.png reads)
DigitsValue(d) ==
    IF d = <<>> THEN 0 ELSE 10 * DigitsValue(SubSeq(d, 1, Len(d) - 1)) + d[Len(d)]

\* the digit field of a frame file name
NameDigits(name) == SubSeq(name, 2, Len(name) - 1)

TotalFrames == job.duration_seconds * FPS

\* sub occurs in s as a substring
Contains(s, sub) ==
    \E k \in 1..(Len(s) - Len(sub) + 1) : SubSeq(s, k, k + Len(sub) - 1) = sub

CommandsRun(c) == {k \in 1..Len(procs) : procs[k].cmd = c}

Failed(k) == procs[k].state = "exited" /\ procs[k].rc # 0
Succeeded(k) == procs[k].state = "exited" /\ procs[k].rc = 0

FinalVideos == {"mix", "fallback", "nomusic"}

----------------------------------------------------------------------------
(* Properties *)

\* the k-th file written is frame_<k-1 as 5 digits>.png and holds the frame
\* rendered at t = (k-1)/FPS
FrameFileExact(k) ==
    /\ Len(frames[k].name) = 7
    /\ frames[k].name[1] = "frame_"
    /\ frames[k].name[7] = ".png"
    /\ DigitsValue(NameDigits(frames[k].name)) = k - 1
    /\ frames[k].image.t.n = k - 1
    /\ frames[k].image.t.d = FPS

\* C1: the frame loop persists exactly duration_seconds * FPS frames.  At
\* every moment the file written last is the one of index Len(frames)-1 and
\* Len(frames) is the loop index (increasing order, none skipped, none
\* twice); when the loop has ended the directory holds, for each index
\* 0..duration_seconds*FPS-1, the file frame_<index as 5 digits>.png with
\* the frame rendered at t = index/FPS, and nothing else.
C1_FrameCountExact ==
    /\ frames # <<>> => FrameFileExact(Len(frames))
    /\ Len(frames) <= TotalFrames
    /\ pc \in {"render", "save"} => Len(frames) = i
    /\ pc \in AfterLoop => Len(frames) = TotalFrames
    /\ pc = "encode" => \A k \in 1..Len(frames) : FrameFileExact(k)

C1_Witness ==
    /\ pc = "encode"
    /\ job.duration_seconds = 20
    /\ FPS = 30
    /\ Len(frames) = 600
    /\ frames[600].name = <<"frame_", 0, 0, 5, 9, 9, ".png">>

\* the k-th frame is an outro scene exactly when (k-1)/FPS >=
\* duration_seconds - OUTRO_SECONDS, and then its scene time is
\* (k-1)/FPS - outro_start; otherwise it is a main scene at (k-1)/FPS
SceneBranchExact(k) ==
    LET n     == k - 1
        start == job.duration_seconds - OUTRO_SECONDS
        scene == frames[k].image.scene
    IN  /\ scene.kind \in {"main", "outro"}
        /\ (scene.kind = "outro") <=> (n >= start * FPS)
        /\ scene.kind = "outro" =>
              scene.t.n * FPS = (n - start * FPS) * scene.t.d
        /\ scene.kind = "main" => scene.t.n * FPS = n * scene.t.d

\* C2: when OUTRO_SECONDS < duration_seconds, a frame is produced by the
\* outro scene, with time t - outro_start, exactly when its time t = i/FPS
\* is >= duration_seconds - OUTRO_SECONDS; every earlier frame is a main
\* scene.  For 20 s at 30 fps and a 3 s outro there are 600 frames and the
\* outro frames are those of index >= 510.
C2_OutroBranch ==
    /\ (job.duration_seconds > OUTRO_SECONDS /\ frames # <<>>) =>
          SceneBranchExact(Len(frames))
    /\ (job.duration_seconds > OUTRO_SECONDS /\ pc = "encode") =>
          \A k \in 1..Len(frames) : SceneBranchExact(k)
    /\ (job.duration_seconds = 20 /\ FPS = 30 /\ OUTRO_SECONDS = 3
          /\ pc = "encode") =>
          /\ Len(frames) = 600
          /\ \A k \in 1..600 :
                (frames[k].image.scene.kind = "outro") <=> (k - 1 >= 510)

C2_Witness ==
    /\ pc = "encode"
    /\ job.duration_seconds = 20
    /\ FPS = 30
    /\ Len(frames) = 600
    /\ frames[510].image.scene.kind = "main"
    /\ frames[511].image.scene.kind = "outro"

\* C3: a job whose images list has not exactly 4 entries never gets past
\* the first check: the call raises with no asset picked, no compositor, no
\* temporary directory, no frame rendered or written, no process started,
\* no output or metadata written, and the job as it was given.
C3_WrongImagesRejectedFirst ==
    job0.nImages # 4 =>
       /\ pc \in {"validate", "raised"}
       /\ pc = "raised" => err.type \in {"ValueError", "Interrupted"}
       /\ bg = None /\ music = None
       /\ ~comp.built
       /\ ~tempDir
       /\ frames = <<>> /\ held = <<>>
       /\ procs = <<>>
       /\ tempVideo = "absent" /\ outVideo = "absent"
       /\ metadata = <<>>
       /\ result = <<>>
       /\ job = job0

C3_Witness ==
    /\ pc = "raised"
    /\ job0.nImages = 3
    /\ err = ImagesError
    /\ Strip(job0.description) = <<>>

\* C4 (as claimed): whenever a frame has been produced, the job has exactly
\* 4 images and exactly 4 items.
C4_ImagesAndItemsChecked ==
    (frames # <<>> \/ held # <<>>) => job.nImages = 4 /\ job.nItems = 4

\* C4 (amended): whenever a frame has been produced, the job has exactly 4
\* images; the number of items is not examined by render_job_to_mp4.
C4_ImagesChecked ==
    (frames # <<>> \/ held # <<>> \/ comp.built) => job.nImages = 4

C4_Witness ==
    /\ frames # <<>>
    /\ job.nImages = 4
    /\ job.nItems = 3

\* C5: once the encoder has exited with a non-zero status the call has
\* raised a RuntimeError whose message contains the stderr text captured
\* from the encoder (as _run embeds it, surrounding whitespace stripped);
\* the encoder is the only process ever started, nothing is at the final
\* output path, no metadata is written and no result is returned.
C5_EncoderFailureFatal ==
    (procs # <<>> /\ procs[1].cmd = "encode" /\ Failed(1)) =>
       /\ pc = "raised"
       /\ err.type = "RuntimeError"
       /\ Contains(err.msg, Strip(procs[1].stderr))
       /\ Len(procs) = 1
       /\ outVideo = "absent"
       /\ metadata = <<>>
       /\ result = <<>>

C5_Witness ==
    /\ pc = "raised"
    /\ procs # <<>>
    /\ Failed(1)
    /\ procs[1].stderr = <<" ", "a", " ", "b", "\n">>
    /\ err.msg = <<"FFmpeg failed:\nCMD: ", "encode", "\n\nSTDERR:\n",
                   "a", " ", "b">>

\* C6: in mux_music the fallback command runs only directly after a failed
\* mix command and at most once; after a failed mix the fallback is the
\* next thing run (unless the call is interrupted first); after a
\* successful mix it is never run; and when the fallback succeeds
\* mux_music returns normally with the fallback's output as final video.
C6_FallbackIffMixFailed ==
    /\ Cardinality(CommandsRun("fallback")) <= 1
    /\ \A k \in CommandsRun("fallback") :
          k > 1 /\ procs[k - 1].cmd = "mix" /\ Failed(k - 1)
    /\ \A k \in CommandsRun("mix") :
          /\ Failed(k) =>
                \/ k < Len(procs) /\ procs[k + 1].cmd = "fallback"
                \/ k = Len(procs) /\ pc = "fallback"
                \/ k = Len(procs) /\ pc = "raised" /\ err = Interrupted
          /\ Succeeded(k) =>
                /\ CommandsRun("fallback") = {}
                /\ k = Len(procs)
                /\ outVideo = "mix"
    /\ \A k \in CommandsRun("fallback") :
          Succeeded(k) =>
             /\ outVideo = "fallback"
             /\ pc \in {"unlink"} \cup AfterEncode
                   \/ (pc = "raised" /\ err = Interrupted)

C6_Witness ==
    /\ pc = "returned"
    /\ Len(procs) = 3
    /\ procs[2].cmd = "mix" /\ Failed(2)
    /\ procs[3].cmd = "fallback" /\ Succeeded(3)
    /\ outVideo = "fallback"

\* C7: whenever frames_to_mp4 has returned, a complete final video is at
\* out_mp4 and the '.nomusic.mp4' intermediate is gone.  With music enabled
\* and a music file chosen, the final video is the output of a successful
\* mux command and the intermediate is never deleted before a mux command
\* succeeded; otherwise the encoder is the only process run and the final
\* video is the moved intermediate.
C7_IntermediatePromotedOrRemoved ==
    /\ pc \in AfterEncode =>
          /\ outVideo \in FinalVideos
          /\ tempVideo = "absent"
          /\ Succeeded(1)
    /\ (ENABLE_BACKGROUND_MUSIC /\ music # None) =>
          /\ outVideo # "nomusic"
          /\ pc \in AfterEncode =>
                /\ Succeeded(Len(procs))
                /\ procs[Len(procs)].cmd \in {"mix", "fallback"}
                /\ outVideo = procs[Len(procs)].cmd
          /\ (procs # <<>> /\ Succeeded(1) /\ tempVideo = "absent") =>
                \E k \in CommandsRun("mix") \cup CommandsRun("fallback") :
                   Succeeded(k)
    /\ ~(ENABLE_BACKGROUND_MUSIC /\ music # None) =>
          /\ CommandsRun("mix") \cup CommandsRun("fallback") = {}
          /\ outVideo \in {"absent", "nomusic"}
          /\ pc \in AfterEncode => outVideo = "nomusic" /\ Len(procs) = 1

C7_Witness ==
    /\ pc = "metadata"
    /\ ~ENABLE_BACKGROUND_MUSIC
    /\ music # None
    /\ outVideo = "nomusic"
    /\ tempVideo = "absent"

C9_StepsOrdered ==
    /\ procs # <<>> =>
          /\ i = comp.total_frames
          /\ pc \notin {"render", "save"}
          /\ tempDir => Len(frames) = TotalFrames
          /\ procs[1].cmd = "encode"
    /\ \A k \in 1..Len(procs) :
          /\ k < Len(procs) => procs[k].state = "exited"
          /\ procs[k].cmd \in {"mix", "fallback"} => k > 1 /\ Succeeded(1)
    /\ Running => pc \in {"encoding", "mixing", "fallingback"}
    /\ metadata # <<>> =>
          /\ outVideo \in FinalVideos
          /\ ~Running
          /\ i = comp.total_frames
    /\ (comp.built /\ ~tempDir /\ pc \notin {"mkdir", "raised"}) =>
          metadata # <<>>
    /\ (pc = "raised" /\ ~tempDir /\ procs # <<>>) => metadata # <<>>

C9_Witness ==
    /\ pc = "returned"
    /\ Len(procs) = 3
    /\ Len(metadata) = 1
    /\ ~tempDir
    /\ job.duration_seconds = 2

\* C10: a failure of the mux step is fatal and nothing is retried.  When
\* the mix and the fallback both failed the call has raised the fallback's
\* RuntimeError, no metadata is written, nothing is returned and the
\* fallback is the last process.  Within one call the encoder, the mix and
\* the fallback command are each run at most once.
C10_MuxFailureFatalNoRetry ==
    /\ \A c \in {"encode", "mix", "fallback"} : Cardinality(CommandsRun(c)) <= 1
    /\ Len(procs) <= 3
    /\ \A k \in CommandsRun("fallback") :
          Failed(k) =>
             /\ pc = "raised"
             /\ err.type = "RuntimeError"
             /\ err.msg[2] = "fallback"
             /\ Contains(err.msg, Strip(procs[k].stderr))
             /\ k = Len(procs)
             /\ metadata = <<>>
             /\ result = <<>>
    /\ pc = "raised" => metadata = <<>> \/ err = Interrupted
    /\ pc = "raised" => result = <<>>

C10_Witness ==
    /\ pc = "raised"
    /\ Len(procs) = 3
    /\ Failed(2)
    /\ Failed(3)
    /\ procs[2].stderr # procs[3].stderr
    /\ outVideo = "partial"

\* C11: render_job_to_mp4 changes the job only in its description, and only
\* when that is blank (empty or whitespace).  Every other field keeps the
\* value it had at the call; a non-blank description is left exactly as
\* given; a blank one is the computed default before any frame is rendered,
\* and is never anything but the given text or that default.
C11_OnlyBlankDescriptionFilled ==
    /\ \A f \in (DOMAIN job) \ {"description"} : job[f] = job0[f]
    /\ job.description \in {job0.description, build_default_description(job0)}
    /\ Strip(job0.description) # <<>> => job.description = job0.description
    /\ (Strip(job0.description) = <<>> /\ (held # <<>> \/ frames # <<>>)) =>
          job.description = build_default_description(job0)

C11_Witness ==
    /\ pc = "returned"
    /\ job0.description = <<>>
    /\ job.description = build_default_description(job0)
    /\ metadata # <<>>
    /\ metadata[1].description = job.description

\* C15: during the frame loop at most one rendered frame is held.  When
\* frame i has been rendered the files of frames 0..i-1 are all written;
\* outside that moment the one frame still bound is the one written last;
\* no list of frames grows in memory; after the call has returned or raised
\* it holds no frame.
C15_OneFrameHeld ==
    /\ Len(held) <= 1
    /\ pc = "save" =>
          /\ Len(held) = 1
          /\ held[1].t = FrameTime(i)
          /\ Len(frames) = i
    /\ pc = "render" => Len(frames) = i /\ (i > 0 => held # <<>>)
    /\ (held # <<>> /\ pc # "save" /\ tempDir) =>
          held[1] = frames[Len(frames)].image
    /\ pc \in {"returned", "raised"} => held = <<>>

C15_Witness ==
    /\ pc = "save"
    /\ i = 3
    /\ Len(frames) = 3
    /\ frames[3].image.t = FrameTime(2)
    /\ held[1].t = FrameTime(3)
    /\ held[1] # frames[3].image

\* C13 (as claimed): every compositor constructed has duration_seconds >
\* OUTRO_SECONDS and offsets ordered as 0 = hook_start <= instruction_start
\* <= grid_start <= timer_start <= outro_start.
C13_TimelineOrdered ==
    comp.built =>
       /\ comp.duration_seconds > OUTRO_SECONDS
       /\ comp.hook_start = Zero
       /\ FLessEq(comp.hook_start, comp.instruction_start)
       /\ FLessEq(comp.instruction_start, comp.grid_start)
       /\ FLessEq(comp.grid_start, comp.timer_start)
       /\ FLessEq(comp.timer_start, FromInt(comp.outro_start))

\* floor(x) as an integer
FFloor(x) == IF x.s = 1 /\ x.e < 0 THEN FTrunc(x) - 1 ELSE FTrunc(x)

\* round(x): the nearest integer, a tie going to the even one
FRound(x) ==
    LET below == FTrunc([x EXCEPT !.s = 0])
        part  == FSub([x EXCEPT !.s = 0], FromInt(below))
        near  == IF FLess(Literal(1, 2), part) \/ (part = Literal(1, 2) /\ below % 2 = 1)
                 THEN below + 1
                 ELSE below
    IN  IF x.s = 1 THEN 0 - near ELSE near

\* C16: countdown_value(T, e) for an integer T >= 0 and e >= 0 is an
\* integer in [0, T]; it is T at e = 0 and 0 for every e >= T; it equals
\* max(0, T - floor(e)); it does not increase when e grows.
C16_CountdownValue ==
    (fn = "countdown_value" /\ FLessEq(Zero, args[2])) =>
       /\ ret \in 0..args[1]
       /\ args[2] = Zero => ret = args[1]
       /\ FLessEq(FromInt(args[1]), args[2]) => ret = 0
       /\ ret = (IF args[1] - FFloor(args[2]) > 0
                 THEN args[1] - FFloor(args[2]) ELSE 0)
       /\ \A later \in Elapsed :
             FLessEq(args[2], later) => countdown_value(args[1], later) <= ret

C16_Witness ==
    /\ fn = "countdown_value"
    /\ args[1] = TIMER_SECONDS
    /\ args[2] = Literal(29, 2)
    /\ ret = 1

\* C17 (as claimed): stagger_progress(t, i, delay, dur) with dur > 0 is 0
\* for every t <= i*delay, 1 for every t >= i*delay + dur, and otherwise
\* (t - i*delay)/dur, strictly between 0 and 1; it does not decrease when t
\* grows.
C17_StaggerStrictlyInside ==
    fn = "stagger_progress" =>
       /\ FLessEq(args[1], FMul(FromInt(args[2]), args[3])) => ret = Zero
       /\ FLessEq(FAdd(FMul(FromInt(args[2]), args[3]), args[4]), args[1]) =>
             ret = One
       /\ (/\ FLess(FMul(FromInt(args[2]), args[3]), args[1])
           /\ FLess(args[1], FAdd(FMul(FromInt(args[2]), args[3]), args[4]))) =>
             /\ ret = FDiv(FSub(args[1], FMul(FromInt(args[2]), args[3])), args[4])
             /\ FLess(Zero, ret)
             /\ FLess(ret, One)
       /\ \A later \in StaggerTimes :
             FLessEq(args[1], later) =>
                FLessEq(ret, stagger_progress(later, args[2], args[3], args[4]))

\* C17 (amended): as claimed, except that between the two thresholds the
\* value is above 0 and at most 1: the float quotient can round to 1.0
\* before t reaches the float i*delay + dur.
C17_StaggerProgress ==
    fn = "stagger_progress" =>
       /\ FLessEq(args[1], FMul(FromInt(args[2]), args[3])) => ret = Zero
       /\ FLessEq(FAdd(FMul(FromInt(args[2]), args[3]), args[4]), args[1]) =>
             ret = One
       /\ (/\ FLess(FMul(FromInt(args[2]), args[3]), args[1])
           /\ FLess(args[1], FAdd(FMul(FromInt(args[2]), args[3]), args[4]))) =>
             /\ ret = FDiv(FSub(args[1], FMul(FromInt(args[2]), args[3])), args[4])
             /\ FLess(Zero, ret)
             /\ FLessEq(ret, One)
       /\ \A later \in StaggerTimes :
             FLessEq(args[1], later) =>
                FLessEq(ret, stagger_progress(later, args[2], args[3], args[4]))

C17_Witness ==
    /\ fn = "stagger_progress"
    /\ args[2] = 1
    /\ FLess(args[1], FAdd(FMul(FromInt(args[2]), args[3]), args[4]))
    /\ ret = One

\* C18 (as claimed): every easing f among linear, ease_out_cubic,
\* ease_in_out_cubic and ease_out_back has f(0) = 0 and f(1) = 1 exactly,
\* and ease_out_back exceeds 1 at some t strictly between 0 and 1.
C18_EasingEndpoints ==
    fn = "easing" =>
       /\ args[2] = Zero => ret = Zero
       /\ args[2] = One => ret = One
       /\ \E inside \in EasingTimes :
             /\ FLess(Zero, inside)
             /\ FLess(inside, One)
             /\ FLess(One, ease_out_back(inside))

\* C19 (as claimed): lerp_point clamps t to [0, 1] and returns each
\* interpolated coordinate rounded to the nearest integer, for any points
\* and any easing; at t = 0 it returns round(start) and at t = 1 round(end).
C19_LerpPointRounds ==
    fn = "lerp_point" =>
       /\ ret = <<FRound(lerp(args[1][1], args[2][1], Ease(args[4], Clamp01(args[3])))),
                  FRound(lerp(args[1][2], args[2][2], Ease(args[4], Clamp01(args[3]))))>>
       /\ args[3] = Zero => ret = <<FRound(args[1][1]), FRound(args[1][2])>>
       /\ args[3] = One => ret = <<FRound(args[2][1]), FRound(args[2][2])>>

\* C12: the frame _render_frame returns is a function of t and of what the
\* compositor was constructed with: among the frames rendered by one instance,
\* at any times and in any order, two frames of the same t are the same frame,
\* and a call of _render_frame changes nothing the instance keeps (its
\* offsets, its background, its images, its logo and icons).
C12_SceneFunctionOfTime ==
    /\ [](\A a, b \in 1..Len(shots) :
             shots[a].t = shots[b].t => shots[a].frame = shots[b].frame)
    /\ [][comp' = comp /\ assets' = assets]_vars

\* the same time of the main scene rendered twice, with images on the frame
C12_Witness ==
    /\ Len(shots) = 2
    /\ shots[1].t = shots[2].t
    /\ shots[1].frame.kind = "main"
    /\ \E n \in 1..Len(shots[2].frame.image.over) :
          shots[2].frame.image.over[n].what = "image"

\* the countdown drawn on a frame
TimerOf(frame) == SelectSeq(frame.image.over, LAMBDA l : l.what = "timer")

\* C20: a frame shows the countdown text exactly when timer_start <= t <
\* outro_start; the text is countdown_value(TIMER_SECONDS, t - timer_start)
\* followed by "s"; timer_start is 2.1 whatever duration_seconds is, and the
\* frame of t = timer_start shows TIMER_SECONDS; no frame with
\* t < timer_start and no outro frame shows a countdown.
C20_CountdownDrawn ==
    /\ comp.built => comp.timer_start = Literal(21, 10)
    /\ \A a \in 1..Len(shots) :
          LET t == Float(shots[a].t)
              timer == TimerOf(shots[a].frame)
          IN  IF /\ FLessEq(comp.timer_start, t)
                 /\ ~RatGE(shots[a].t, Rat(comp.outro_start, 1))
              THEN /\ timer = <<Layer("timer", 255,
                                      <<countdown_value(TIMER_SECONDS,
                                                        FSub(t, comp.timer_start)),
                                        "s">>)>>
                   /\ t = comp.timer_start => timer[1].value[1] = TIMER_SECONDS
              ELSE timer = <<>>

\* frames of both kinds of the 10-second video: the countdown at 14, then an
\* outro frame without it
C20_Witness ==
    /\ comp.duration_seconds < TIMER_SECONDS
    /\ Len(shots) = 2
    /\ TimerOf(shots[1].frame) # <<>>
    /\ TimerOf(shots[1].frame)[1].value = <<TIMER_SECONDS - 1, "s">>
    /\ shots[2].frame.kind = "outro"

\* C14: two calls of render_job_to_mp4, one after the other or at the same
\* time, for the same puzzle id or for different ones, never get the same
\* output video path, the same metadata path or the same temporary directory.
C14_PathsNeverShared ==
    \A a, b \in 1..Len(calls) :
        a # b => /\ calls[a].out_video # calls[b].out_video
                 /\ calls[a].out_meta # calls[b].out_meta
                 /\ calls[a].temp_dir # calls[b].temp_dir

\* C21: whenever render_job_to_mp4 returns, exactly one metadata document has
\* been written for the job; it holds puzzle_id, hook, instruction, items,
\* timer_seconds = TIMER_SECONDS, fps = FPS, title, description and tags;
\* its description is not blank (the job's own when that was not blank,
\* the default otherwise) and its tags are the job's, or the empty list
\* when the job has none.
C21_SidecarWritten ==
    pc = "returned" =>
        /\ Len(metadata) = 1
        /\ metadata[1] =
              [puzzle_id     |-> job0.puzzle_id,
               hook          |-> job0.hook,
               instruction   |-> job0.instruction,
               nItems        |-> job0.nItems,
               timer_seconds |-> TIMER_SECONDS,
               fps           |-> FPS,
               title         |-> job0.title,
               description   |-> IF Strip(job0.description) = <<>>
                                 THEN build_default_description(job0)
                                 ELSE job0.description,
               tags          |-> IF job0.tags = <<>> THEN <<>> ELSE job0.tags[1]]
        /\ Strip(metadata[1].description) # <<>>

\* a call returned for a job without tags and with a blank description
C21_Witness ==
    /\ pc = "returned"
    /\ job0.tags = <<>>
    /\ job0.description = <<" ", "\n">>
    /\ Len(metadata) = 1

Abs(n) == IF n < 0 THEN 0 - n ELSE n
Larger(a, b) == IF a < b THEN b ELSE a

\* C22: every image fetch_wikipedia_image returns is at least
\* WIKI_IMAGE_MIN_WIDTH wide and WIKI_IMAGE_MIN_HEIGHT high; an image that
\* _upscale enlarged (its source was smaller in some dimension) keeps its
\* width/height ratio within one pixel; a 500x500 source becomes exactly
\* 600x600.
C22_UpscaleMeetsMinimum ==
    \A n \in 1..Len(wiki.images) :
        LET img == wiki.images[n]
        IN  /\ img.w >= WIKI_IMAGE_MIN_WIDTH
            /\ img.h >= WIKI_IMAGE_MIN_HEIGHT
            /\ Abs(img.w * img.from[2] - img.h * img.from[1])
                  <= Larger(img.from[1], img.from[2])
            /\ img.from = <<500, 500>> => img.w = 600 /\ img.h = 600

\* C23: fetch_images_for_items either returns a list with one image per
\* item, in the order of the items, or raises at the first item whose fetch
\* fails, every item before it fetched; a call that raised returns nothing,
\* and no list returned is shorter than the items or holds an image of
\* anything but its item.
C23_OneImagePerItemOrRaise ==
    /\ wiki.pc = "returned" =>
          /\ wiki.err = <<>>
          /\ Len(wiki.result[1]) = Len(wiki.items)
          /\ \A n \in 1..Len(wiki.items) :
                /\ wiki.result[1][n].query = wiki.items[n]
                /\ wiki.result[1][n].w > 0
                /\ wiki.result[1][n].h > 0
    /\ wiki.pc = "raised" =>
          /\ wiki.result = <<>>
          /\ Len(wiki.images) < Len(wiki.items)
          /\ wiki.err = <<"RuntimeError", wiki.items[Len(wiki.images) + 1]>>
          /\ \A n \in 1..Len(wiki.images) : wiki.images[n].query = wiki.items[n]
    /\ wiki.result # <<>> => wiki.pc = "returned"

\* four items, all fetched and returned
C23_Witness ==
    /\ wiki.pc = "returned"
    /\ Len(wiki.items) = REQUIRED_IMAGES
    /\ Len(wiki.result[1]) = REQUIRED_IMAGES

\* C24: the puzzle select_next_puzzle returned, the one run_once fetches
\* images for and renders, has exactly 4 items, and every item starts with
\* the puzzle's letter when both are put in lower case.
C24_SelectedPuzzleValid ==
    run.puzzle # <<>> =>
        /\ Len(run.puzzle[1].items) = 4
        /\ \A n \in 1..Len(run.puzzle[1].items) :
              /\ Len(run.puzzle[1].items[n]) >= Len(run.puzzle[1].letter)
              /\ \A k \in 1..Len(run.puzzle[1].letter) :
                    Lower(run.puzzle[1].items[n][k])
                        = Lower(run.puzzle[1].letter[k])

\* the puzzle with upper-case items and a lower-case letter is rendered
C24_Witness ==
    /\ run.pc = "render"
    /\ run.puzzle[1].id = "p2"

\* C29: run_once ends: every call returns or raises.  It makes at most
\* MAX_PUZZLE_ATTEMPTS attempts; when it returns, the paths are those of the
\* attempt that succeeded, every attempt before it failed and none is made
\* after it; when all MAX_PUZZLE_ATTEMPTS attempts failed it raises
\* RuntimeError with the error of the last attempt as its cause.
C29_RunOnceTerminates ==
    /\ [](/\ run.attempt <= MAX_PUZZLE_ATTEMPTS + 1
          /\ run.pc \in {"fetch", "render"} => run.attempt <= MAX_PUZZLE_ATTEMPTS
          /\ run.pc = "returned" =>
                /\ run.result = <<[video |-> run.puzzle[1].id,
                                   meta |-> run.puzzle[1].id,
                                   attempt |-> run.attempt]>>
                /\ run.attempt <= MAX_PUZZLE_ATTEMPTS
                /\ run.attempt > 1 => run.last_error[3] = run.attempt - 1
          /\ run.pc = "raised" /\ run.attempt > MAX_PUZZLE_ATTEMPTS =>
                /\ run.err = <<"RuntimeError", run.last_error>>
                /\ run.last_error[3] = MAX_PUZZLE_ATTEMPTS
                /\ run.result = <<>>)
    /\ (run.pc \in {"select", "fetch", "render"}
           ~> run.pc \in {"returned", "raised"})

\* ten attempts failed and the call raised
C29_Witness ==
    /\ run.pc = "raised"
    /\ run.attempt = MAX_PUZZLE_ATTEMPTS + 1
    /\ run.err # <<>>

\* C30: a puzzle that failed in run_once is in the used file, and no later
\* attempt, of this call of run_once or of a later one, selects it again.
C30_FailedNeverSelectedAgain ==
    /\ run.failed \subseteq load_used_ids(run.usedFile)
    /\ run.pc \in {"fetch", "render"} => run.puzzle[1].id \notin run.failed

\* C25: upload_video makes at most retries attempts and no attempt after a
\* success.  The metrics it returns count the attempts made; success is true
\* exactly when the last attempt completed, and then video_id and
\* duration_sec are set; after retries failed attempts the call returns with
\* success false and no video_id, it does not raise.  It has slept
\* 5 * attempt seconds after each failed attempt but the last one, and never
\* otherwise.
C25_UploadRetries ==
    /\ Len(upload.outcomes) <= upload.retries
    /\ \A n \in 1..(Len(upload.outcomes) - 1) : upload.outcomes[n] # "ok"
    /\ \A n \in 1..Len(upload.slept) : upload.slept[n] = RETRY_WAIT * n
    /\ Len(upload.slept) <= Len(upload.outcomes)
    /\ Len(upload.slept) < upload.retries \/ upload.slept = <<>>
    /\ upload.pc = "raised" => upload.outcomes = <<>>
    /\ upload.pc = "returned" /\ upload.retries >= 1 =>
          /\ upload.result[1].attempts = Len(upload.outcomes)
          /\ upload.result[1].success
                 = (upload.outcomes[Len(upload.outcomes)] = "ok")
          /\ Len(upload.slept) = Len(upload.outcomes) - 1
          /\ upload.result[1].duration_sec # <<>>
          /\ upload.result[1].success => upload.result[1].video_id # <<>>
          /\ ~upload.result[1].success =>
                /\ Len(upload.outcomes) = upload.retries
                /\ upload.result[1].video_id = <<>>

\* three attempts failed and the call returned its metrics
C25_Witness ==
    /\ upload.pc = "returned"
    /\ upload.retries = MaxRetries
    /\ ~upload.result[1].success
    /\ upload.slept = <<RETRY_WAIT, 2 * RETRY_WAIT>>

\* what a frame shows of one kind
Drawn(frame, what) == SelectSeq(frame.image.over, LAMBDA l : l.what = what)

\* the progress of the hook, the instruction and the four images at the float t
Reveal(t) ==
    <<HookProgress(t), InstructionProgress(t), GridProgress(0, t),
      GridProgress(1, t), GridProgress(2, t), GridProgress(3, t)>>

\* each element is at least as far as the next one
RevealOrdered(p) == \A n \in 1..5 : FLessEq(p[n + 1], p[n])

\* the frame of the float t shows the elements whose progress p is positive
RevealDrawn(frame, t, p) ==
    /\ (Drawn(frame, "hook") # <<>>) <=> FLess(Zero, p[1])
    /\ (Drawn(frame, "instruction") # <<>>) <=> FLess(Zero, p[2])
    /\ Len(Drawn(frame, "image")) = Cardinality({n \in 3..6 : FLess(Zero, p[n])})
    /\ \A index \in 0..3 :
          FLess(Zero, p[index + 3]) =>
              FLess(FAdd(comp.grid_start,
                         FMul(FromInt(index), IMAGE_STAGGER_DELAY)), t)
    /\ t = comp.timer_start \/ TimerOf(frame) # <<>> =>
          \A n \in 3..6 : p[n] = One

\* C26: on every frame of the main scene the progress of the hook, of the
\* instruction and of the images 0 to 3 is non-increasing in this order; the
\* frame shows an element exactly when its progress is positive, so the frame
\* of t = 0 shows nothing and image i is shown only for
\* t > grid_start + i * IMAGE_STAGGER_DELAY; at t = timer_start, and on every
\* frame that shows the countdown, the four images have progress exactly 1.
C26_RevealOrder ==
    \A a \in 1..Len(shots) :
        shots[a].frame.kind = "main" =>
            /\ RevealOrdered(Reveal(Float(shots[a].t)))
            /\ RevealDrawn(shots[a].frame, Float(shots[a].t),
                           Reveal(Float(shots[a].t)))
            /\ shots[a].t = FrameTime(0) => shots[a].frame.image.over = <<>>

\* frame 62, where the last image is still entering, then the frame of
\* t = timer_start with the countdown
C26_Witness ==
    /\ Len(shots) = 2
    /\ Float(shots[2].t) = comp.timer_start
    /\ TimerOf(shots[2].frame) # <<>>
    /\ TimerOf(shots[1].frame) = <<>>
    /\ Len(Drawn(shots[1].frame, "image")) = REQUIRED_IMAGES
    /\ Drawn(shots[1].frame, "image")[REQUIRED_IMAGES].alpha < 255

\* the number the countdown of a frame shows
Shown(frame) == TimerOf(frame)[1].value[1]

\* C27: in the 20-second video the countdown is on the frames 63 to 509 and
\* on no other; it shows 15 on frame 63, the first frame with
\* t >= timer_start, and 1 on frame 509, the last frame of the main scene; it
\* never shows 0, and from one frame to the next it never goes up.
C27_DefaultCountdown ==
    comp.duration_seconds = DEFAULT_DURATION /\ shots # <<>> =>
        /\ i - 1 < 63 => TimerOf(shots[Len(shots)].frame) = <<>>
        /\ i - 1 >= 63 /\ i - 1 <= 509 =>
              /\ shots[Len(shots)].frame.kind = "main"
              /\ FLessEq(comp.timer_start, Float(shots[Len(shots)].t))
              /\ TimerOf(shots[Len(shots)].frame) # <<>>
              /\ Shown(shots[Len(shots)].frame) \in 1..TIMER_SECONDS
        /\ i - 1 = 62 => ~FLessEq(comp.timer_start, Float(shots[Len(shots)].t))
        /\ i - 1 = 63 => Shown(shots[Len(shots)].frame) = TIMER_SECONDS
        /\ i - 1 = 509 => Shown(shots[Len(shots)].frame) = 1
        /\ i - 1 > 509 =>
              /\ shots[Len(shots)].frame.kind = "outro"
              /\ TimerOf(shots[Len(shots)].frame) = <<>>
        /\ i - 1 > 63 /\ i - 1 <= 509 =>
              Shown(shots[2].frame) <= Shown(shots[1].frame)

\* the frames 508 and 509 of the 20-second video, the last of which shows 1
C27_Witness ==
    /\ comp.duration_seconds = DEFAULT_DURATION
    /\ i = 510
    /\ Len(shots) = 2
    /\ TimerOf(shots[2].frame)[1].value = <<1, "s">>
    /\ TimerOf(shots[1].frame)[1].value = <<1, "s">>

\* C28: after a mix command that failed, with whatever stderr, mux_music goes
\* on to the fallback command and no error of the mix is kept; when the
\* fallback fails too, the call has raised the RuntimeError of the fallback
\* command, with the fallback's stderr, and the '.nomusic.mp4' intermediate
\* is still there; the intermediate is gone only after a mux command
\* succeeded.
C28_FallbackErrorRaised ==
    /\ \A k \in CommandsRun("mix") :
          Failed(k) =>
             \/ /\ k = Len(procs)
                /\ \/ (pc = "fallback" /\ err = NoError)
                   \/ (pc = "raised" /\ err = Interrupted)
             \/ /\ k + 1 = Len(procs)
                /\ procs[k + 1].cmd = "fallback"
                /\ err # RunError("mix", procs[k].stderr)
    /\ \A k \in CommandsRun("fallback") :
          /\ procs[k].state = "running" =>
                err = NoError /\ tempVideo = "complete"
          /\ Failed(k) =>
                /\ pc = "raised"
                /\ err = RunError("fallback", procs[k].stderr)
                /\ tempVideo = "complete"
                /\ result = <<>>
    /\ \A k \in CommandsRun("mix") \cup CommandsRun("fallback") :
          tempVideo = "absent" => Succeeded(Len(procs))

\* the mix and the fallback failed with different stderr texts; the
\* intermediate is in place and nothing is at the final path
C28_Witness ==
    /\ pc = "raised"
    /\ Len(procs) = 3
    /\ Failed(2) /\ procs[2].stderr = <<"c">>
    /\ Failed(3) /\ procs[3].stderr = <<" ", "a", " ", "b", "\n">>
    /\ err.msg = <<"FFmpeg failed:\nCMD: ", "fallback", "\n\nSTDERR:\n",
                   "a", " ", "b">>
    /\ tempVideo = "complete"
    /\ outVideo = "absent"

\* the ids in the used-puzzles file
Recorded == load_used_ids(run.usedFile)

\* the used-puzzles file grows by the id of the puzzle being attempted, or
\* stays as it is
UsedFileGrows ==
    \/ run'.usedFile = run.usedFile
    \/ /\ run.pc \in {"fetch", "render"}
       /\ run'.usedFile = Append(run.usedFile, run.puzzle[1].id)

\* C31 as stated: once a call of run_once has ended, by return or by any
\* raise, every puzzle it attempted is in the used-puzzles file; the file
\* only grows, by ids of attempted puzzles.
C31_AttemptedRecorded ==
    /\ [](run.pc \in {"returned", "raised"} =>
             /\ run.failed \subseteq Recorded
             /\ run.puzzle # <<>> => run.puzzle[1].id \in Recorded)
    /\ [][UsedFileGrows]_vars

\* C31, amended: once a call of run_once has ended, every puzzle whose
\* attempt succeeded or failed with an Exception is in the used-puzzles
\* file; a puzzle whose attempt was cut short by a KeyboardInterrupt is
\* recorded only if an earlier attempt had recorded it; the file only grows,
\* by ids of attempted puzzles.
C31_AttemptedRecordedUnlessInterrupted ==
    /\ [](run.pc \in {"returned", "raised"} =>
             /\ run.failed \subseteq Recorded
             /\ run.puzzle # <<>> /\ run.err # <<"KeyboardInterrupt">> =>
                   run.puzzle[1].id \in Recorded)
    /\ [][UsedFileGrows]_vars
    /\ [][run'.err = <<"KeyboardInterrupt">> =>
             run'.usedFile = run.usedFile]_vars

\* a call that returned the third puzzle after the first two had failed
C31_Witness ==
    /\ run.pc = "returned"
    /\ run.usedFile = <<"p1", "p2", "p3">>
    /\ run.failed = {"p1", "p2"}
    /\ run.puzzle[1].id = "p3"

\* the positions in the puzzle file of the puzzles whose id is not in used
Unused == {n \in 1..Len(run.file.data) : run.file.data[n].id \notin run.used}

FailedAttempts == SelectSeq(upload.outcomes, LAMBDA o : o # "ok")

\* C36: the error of the metrics is that of the latest attempt that failed,
\* and null as long as none has failed; a later attempt that succeeds leaves
\* it as it is.  So in a result with success true the error is null exactly
\* when the first attempt succeeded, and in a result with success false
\* (retries >= 1) it is the error of the last attempt.
C36_ErrorKept ==
    /\ upload.metrics.error =
           IF FailedAttempts = <<>> THEN <<>>
           ELSE <<FailedAttempts[Len(FailedAttempts)]>>
    /\ upload.pc = "returned" =>
          /\ upload.result[1].error = upload.metrics.error
          /\ upload.result[1].success =>
                (upload.result[1].error = <<>>) = (Len(upload.outcomes) = 1)
          /\ ~upload.result[1].success /\ upload.retries >= 1 =>
                /\ upload.result[1].error # <<>>
                /\ upload.result[1].error
                       = <<upload.outcomes[Len(upload.outcomes)]>>

\* the third attempt succeeded and the result carries the error of the second
C36_Witness ==
    /\ upload.pc = "returned"
    /\ upload.outcomes = <<"HttpError", "KeyError", "ok">>
    /\ upload.result[1].success
    /\ upload.result[1].error = <<"KeyError">>

\* C34: with a stored timestamp, sleep_until_next_run has returned only
\* when the clock has reached last_run + interval, so that should_run() is
\* true on return; and no sleep of its countdown is longer than the time
\* that remained when it started.
C34_WakesWhenDue ==
    sched.last_run # <<>> =>
        /\ sched.pc = "loop" /\ sched.woke =>
              /\ sched.now >= sched.last_run[1] + sched.interval
              /\ should_run(sched)
        /\ \A n \in 1..Len(sched.slept) :
              sched.slept[n].seconds <= sched.slept[n].remaining

----------------------------------------------------------------------------
(* The scheduler's timestamp and its retries                               *)

\* the last call of upload_video was for the video of this iteration and
\* its metrics reported success
UploadSucceeded ==
    /\ sched.uploads # <<>>
    /\ sched.video # <<>>
    /\ sched.uploads[Len(sched.uploads)].video = sched.video[1]
    /\ sched.uploads[Len(sched.uploads)].outcome = "success"

\* C33: the last-run timestamp changes only at the end of an iteration whose
\* render returned and, unless DRY_RUN, whose upload reported success, and
\* it becomes the time of that moment; after a failure the retry wait passes
\* with the timestamp unchanged and should_run() true, so that the next
\* iteration renders; the loop is left only with a KeyboardInterrupt.
C33_TimestampOnlyAfterSuccess ==
    /\ [][sched'.last_run # sched.last_run =>
             /\ sched.pc = "stamp"
             /\ run.pc = "returned"
             /\ sched.video # <<>>
             /\ sched.DRY_RUN \/ UploadSucceeded
             /\ sched'.last_run = <<sched.now>>]_vars
    /\ [][sched.pc = "retry" /\ sched'.pc = "loop" =>
             /\ sched'.last_run = sched.last_run
             /\ sched'.now = sched.now + Seconds(sched.wait)
             /\ should_run(sched')]_vars
    /\ [][sched.pc = "loop" /\ sched.err # <<>> /\ sched'.pc # "loop" =>
             sched'.pc \in {"render", "stopped"}]_vars
    /\ [](sched.pc = "stopped" => sched.err = <<"KeyboardInterrupt">>)

\* a failed upload, the retry, and then an upload that succeeded and was
\* followed by the timestamp
C33_Witness ==
    /\ sched.pc = "loop"
    /\ ~sched.DRY_RUN
    /\ Len(sched.uploads) = 2
    /\ sched.uploads[1].outcome = "failed"
    /\ sched.uploads[2].outcome = "success"
    /\ sched.last_run = <<sched.now>>
    /\ sched.now >= Seconds(3600 - 1) + Seconds(RENDER_RETRY_SECONDS)

\* C35: no video is handed to upload_video twice: every upload is of the
\* video of a later run_once call than the uploads before it; metrics
\* without success end the iteration as a RuntimeError that waits
\* RENDER_RETRY_SECONDS; the puzzle of a video whose upload failed is in
\* the used file.
C35_FailedUploadNotRepeated ==
    /\ \A m, n \in 1..Len(sched.uploads) :
          m < n => sched.uploads[m].video.call < sched.uploads[n].video.call
    /\ \A n \in 1..Len(sched.uploads) :
          sched.uploads[n].outcome = "failed" =>
              sched.uploads[n].video.puzzle \in load_used_ids(run.usedFile)
    /\ ( /\ sched.pc = "retry"
         /\ sched.video # <<>>
         /\ sched.uploads[Len(sched.uploads)].outcome = "failed" ) =>
           /\ sched.err = <<"RuntimeError">>
           /\ sched.wait = RENDER_RETRY_SECONDS
           /\ sched.wait # UPLOAD_RETRY_SECONDS

\* after a failed upload the next iteration has rendered and uploaded the
\* video of another puzzle
C35_Witness ==
    /\ Len(sched.uploads) = 2
    /\ sched.uploads[1].outcome = "failed"
    /\ sched.uploads[2].video.puzzle # sched.uploads[1].video.puzzle
    /\ sched.uploads[2].video.call = sched.uploads[1].video.call + 1
    /\ sched.uploads[1].video.puzzle \in load_used_ids(run.usedFile)

====
